---- MODULE Spec2Model ----
(***************************************************************************)
(* A model of the image renamer plugin (src/main.ts): the caption round    *)
(* with its retry wrapper and timeout timer, the filename sanitizer, the   *)
(* collision filter and the two rename operations, run by up to two        *)
(* overlapping user-triggered operations on one vault.                     *)
(*                                                                         *)
(* Strings are sequences of one-character strings, so that trimming,       *)
(* regular-expression replacement and path building are computed.          *)
(***************************************************************************)
EXTENDS Integers, Sequences, FiniteSets, TLC

(***************************************************************************)
(* Characters and strings                                                  *)
(***************************************************************************)
LowerLetters ==
  << "a", "b", "c", "d", "e", "f", "g", "h", "i", "j", "k", "l", "m",
     "n", "o", "p", "q", "r", "s", "t", "u", "v", "w", "x", "y", "z" >>

UpperLetters ==
  << "A", "B", "C", "D", "E", "F", "G", "H", "I", "J", "K", "L", "M",
     "N", "O", "P", "Q", "R", "S", "T", "U", "V", "W", "X", "Y", "Z" >>

Digits == << "0", "1", "2", "3", "4", "5", "6", "7", "8", "9" >>

\* F(x), with x evaluated once
Bind(x, F(_)) == CHOOSE y \in { F(v) : v \in {x} } : TRUE

Range(s) == { s[i] : i \in DOMAIN s }

IndexOf(s, c) == CHOOSE i \in DOMAIN s : s[i] = c

\* String.prototype.toUpperCase / toLowerCase on one character
ToUpperChar(c) ==
  IF c \in Range(LowerLetters) THEN UpperLetters[IndexOf(LowerLetters, c)] ELSE c

ToLowerChar(c) ==
  IF c \in Range(UpperLetters) THEN LowerLetters[IndexOf(UpperLetters, c)] ELSE c

ToUpperCase(s0) ==
  Bind(s0, LAMBDA s :
    [i \in DOMAIN s |-> ToUpperChar(s[i])])

ToLowerCase(s0) ==
  Bind(s0, LAMBDA s :
    [i \in DOMAIN s |-> ToLowerChar(s[i])])

\* the regular-expression classes \s and \w
SpaceChars == {" ", "\t", "\n"}

IsSpace(c) == c \in SpaceChars

IsWordChar(c) ==
  c \in Range(LowerLetters) \cup Range(UpperLetters) \cup Range(Digits) \cup {"_"}

\* the class [<>:"/\\|?*] of sanitizeFilename
IllegalChars == {"<", ">", ":", "\"", "/", "\\", "|", "?", "*"}

RECURSIVE TrimStart(_)
TrimStart(s0) ==
  Bind(s0, LAMBDA s :
    IF s # << >> /\ IsSpace(Head(s)) THEN TrimStart(Tail(s)) ELSE s)

RECURSIVE TrimEnd(_)
TrimEnd(s0) ==
  Bind(s0, LAMBDA s :
    IF s # << >> /\ IsSpace(s[Len(s)]) THEN TrimEnd(SubSeq(s, 1, Len(s) - 1)) ELSE s)

\* String.prototype.trim
Trim(s) == TrimEnd(TrimStart(s))

\* s.replace(/[class]/g, "")
RemoveChars(s, class) == SelectSeq(s, LAMBDA c : c \notin class)

\* s.replace(/[class]+/g, rep)
RECURSIVE CollapseRuns(_, _, _, _)
CollapseRuns(s0, class, rep, inRun) ==
  Bind(s0, LAMBDA s :
    IF s = << >> THEN << >>
    ELSE IF Head(s) \in class
         THEN (IF inRun THEN << >> ELSE rep) \o CollapseRuns(Tail(s), class, rep, TRUE)
         ELSE << Head(s) >> \o CollapseRuns(Tail(s), class, rep, FALSE))

\* s.replace(/c/g, rep) for one character c
ReplaceChar(s0, c, rep) ==
  Bind(s0, LAMBDA s :
    [i \in DOMAIN s |-> IF s[i] = c THEN rep ELSE s[i]])

(***************************************************************************)
(* sanitizeFilename                                                        *)
(***************************************************************************)
\* result.replace(/\w\S*/g, txt => txt.charAt(0).toUpperCase()
\*                                 + txt.substr(1).toLowerCase())
RECURSIVE TitleCase(_, _)
TitleCase(s0, inMatch) ==
  Bind(s0, LAMBDA s :
    IF s = << >> THEN << >>
    ELSE LET c == Head(s) IN
         IF inMatch
         THEN (IF IsSpace(c)
               THEN << c >> \o TitleCase(Tail(s), FALSE)
               ELSE << ToLowerChar(c) >> \o TitleCase(Tail(s), TRUE))
         ELSE (IF IsWordChar(c)
               THEN << ToUpperChar(c) >> \o TitleCase(Tail(s), TRUE)
               ELSE << c >> \o TitleCase(Tail(s), FALSE)))

\* result.charAt(0).toUpperCase() + result.slice(1).toLowerCase()
SentenceCase(s0) ==
  Bind(s0, LAMBDA s :
    IF s = << >> THEN << >>
    ELSE << ToUpperChar(Head(s)) >> \o ToLowerCase(Tail(s)))

ApplyCaseStyle(s, caseStyle) ==
  CASE caseStyle = "lower" -> ToLowerCase(s)
    [] caseStyle = "upper" -> ToUpperCase(s)
    [] caseStyle = "title" -> TitleCase(s, FALSE)
    [] caseStyle = "sentence" -> SentenceCase(s)
    [] OTHER -> s

\* StripEdgeHyphens leaving the hyphens where they are
KeepEdgeHyphens(s) == s

\* result.replace(/^-|-$/g, "")
StripEdgeHyphens(s0) ==
  Bind(s0, LAMBDA s :
    LET a == IF s # << >> /\ Head(s) = "-" THEN Tail(s) ELSE s
    IN IF a # << >> /\ a[Len(a)] = "-" THEN SubSeq(a, 1, Len(a) - 1) ELSE a)

\* the classes of /-+/g and /[\s_]+/g
Hyphens == {"-"}

SpacesAndUnderscores == SpaceChars \cup {"_"}

sanitizeFilename(text, st) ==
  LET r1 == RemoveChars(Trim(text), IllegalChars)
      r2 == IF ~st.allowSpaces
            THEN CollapseRuns(r1, SpacesAndUnderscores, << "-" >>, FALSE)
            ELSE ReplaceChar(CollapseRuns(r1, SpaceChars, << " " >>, FALSE), "_", " ")
      r3 == ApplyCaseStyle(r2, st.caseStyle)
      r4 == IF ~st.allowSpaces
            THEN StripEdgeHyphens(CollapseRuns(r3, Hyphens, << "-" >>, FALSE))
            ELSE r3
  IN Trim(r4)

(***************************************************************************)
(* Paths and the vault                                                     *)
(***************************************************************************)
\* what getAbstractFileByPath gives for a free path
NoFile == "none"

\* the path of a file that does not exist
NoPath == << >>

Slashes == {"/", "\\"}

RECURSIVE StripLeadingSlashes(_)
StripLeadingSlashes(s0) ==
  Bind(s0, LAMBDA s :
    IF s # << >> /\ Head(s) = "/" THEN StripLeadingSlashes(Tail(s)) ELSE s)

RECURSIVE StripTrailingSlashes(_)
StripTrailingSlashes(s0) ==
  Bind(s0, LAMBDA s :
    IF s # << >> /\ s[Len(s)] = "/"
    THEN StripTrailingSlashes(SubSeq(s, 1, Len(s) - 1)) ELSE s)

\* obsidian's normalizePath: runs of slashes become one slash, leading and
\* trailing slashes are dropped, an empty path is "/"
normalizePath(p0) ==
  Bind(p0, LAMBDA p :
    LET q == StripTrailingSlashes(StripLeadingSlashes(
               CollapseRuns(p, Slashes, << "/" >>, FALSE)))
    IN IF q = << >> THEN << "/" >> ELSE q)

\* index of the last occurrence of c in s, 0 when there is none
LastIndexOf(s0, c) ==
  Bind(s0, LAMBDA s :
    IF c \in Range(s) THEN CHOOSE i \in DOMAIN s :
                             s[i] = c /\ \A j \in DOMAIN s : s[j] = c => j <= i
    ELSE 0)

\* TFile.parent.path: the folder part of a file path ("/" for the vault root)
ParentPath(path0) ==
  Bind(path0, LAMBDA path :
    LET i == LastIndexOf(path, "/")
    IN IF i = 0 THEN << "/" >> ELSE SubSeq(path, 1, i - 1))

\* TFile.name: the part after the last slash
FileName(path0) ==
  Bind(path0, LAMBDA path :
    SubSeq(path, LastIndexOf(path, "/") + 1, Len(path)))

\* TFile.extension: the part of the name after its last dot
Extension(path0) ==
  Bind(path0, LAMBDA path :
    LET n == FileName(path)
        i == LastIndexOf(n, ".")
    IN IF i <= 1 THEN << >> ELSE SubSeq(n, i + 1, Len(n)))

(***************************************************************************)
(* Bounds and inputs of the model                                          *)
(***************************************************************************)
\* settings.maxRetries ranges over 1 .. MaxRetriesBound
MaxRetriesBound == 2

\* the overlapping user-triggered operations
Ops == {1, 2}

\* the files of the vault: two images, and one file other actors may create
Files == {"f1", "f2", "f3"}

ImageFiles == {"f1", "f2"}

InitialPath(f) ==
  IF f = "f1" THEN << "d", "/", "p", ".", "p", "n", "g" >>
  ELSE IF f = "f2" THEN << "d", "/", "q", ".", "p", "n", "g" >>
  ELSE NoPath

\* stat(file.path).ctime as a calendar date, month counted from 0 as
\* Date.getMonth does; NoCtime (a ctime of 0) when the adapter reports none
NoCtime == [year |-> 0, month |-> 0, date |-> 0]

FileCtime(f) ==
  IF f = "f1" THEN [year |-> 2024, month |-> 2, date |-> 5] ELSE NoCtime

\* the caption arrays the backend may answer with, all valid for
\* CaptionSchema (1 to 5 strings of 1 to 50 characters)
RawCaptionLists ==
  { << << "a" >> >>,
    << << "a" >>, << "b" >> >>,
    << << "?" >>, << "a" >> >> }

\* what the user may type into the dialog's text input
UserTexts == { << " " >>, << " ", "A" >> }

\* what generateObject may throw
RawErrors == {"abort", "http401", "http429", "modelNotFound", "schema", "network"}

\* failures whose message holds a word the catch block looks for: a 503
\* answer "The model is overloaded", and a schema mismatch whose message
\* quotes a response text that holds the word "model"
WordedErrors == {"overloaded", "schemaQuotesModel"}

\* what kind of failure a thrown error is
ErrorKind(e) ==
  IF e = "abort" THEN "timeout"
  ELSE IF e = "http401" THEN "auth"
  ELSE IF e = "http429" THEN "rateLimit"
  ELSE IF e = "modelNotFound" THEN "model"
  ELSE IF e \in {"schema", "schemaQuotesModel", "No captions generated"}
       THEN "schema"
  ELSE "network"

(***************************************************************************)
(* State                                                                   *)
(***************************************************************************)
VARIABLES
  vault,            \* file -> its path, NoPath while the file does not exist
  settings,         \* ImageRenamerPlugin.settings
  isMobile,         \* app.isMobile
  abortController,  \* ImageRenamerPlugin.abortController: 0 is null, else the
                    \* operation whose request created the controller
  unloaded,         \* onunload has run
  op                \* operation -> the locals of its renameImageFile or
                    \* renameImageFileInteractive call, with its history

vars == << vault, settings, isMobile, abortController, unloaded, op >>

\* Endpoints are the pieces that "/" separates, in order: the string is the
\* pieces joined by "/", and "" is the single empty piece.
OpenAIChatCompletions ==
  << "https:", "", "api.openai.com", "v1", "chat", "completions" >>

OllamaChat == << "http:", "", "localhost:11434", "api", "chat" >>

DEFAULT_SETTINGS ==
  [ apiKey |-> "", localApiKey |-> "",
    apiEndpoint |-> OpenAIChatCompletions, localApiEndpoint |-> OllamaChat,
    model |-> "gpt-4o-mini", localModel |-> "llama3.2-vision:11b",
    datePrefix |-> FALSE, caseStyle |-> "title",
    allowSpaces |-> TRUE, maxRetries |-> 3, timeoutMs |-> 30000,
    useLocalModel |-> FALSE, localModelServer |-> "ollama" ]

LOCAL_MODEL_PRESETS ==
  [ server \in {"ollama", "lm-studio", "localai", "custom"} |->
      CASE server = "ollama" ->
             [endpoint |-> OllamaChat, model |-> "llama3.2-vision:11b"]
        [] server = "lm-studio" ->
             [endpoint |-> << "http:", "", "localhost:1234", "v1", "chat",
                              "completions" >>,
              model |-> "local-model"]
        [] server = "localai" ->
             [endpoint |-> << "http:", "", "localhost:8080", "v1", "chat",
                              "completions" >>,
              model |-> "llava-1.5-7b-hf"]
        [] OTHER -> [endpoint |-> << "" >>, model |-> ""] ]

\* no generateObject call made yet
NoRequest ==
  [provider |-> "none", endpoint |-> << >>, baseURL |-> << >>,
   model |-> "", apiKey |-> ""]

\* resizeAndConvertToBase64 not entered: no object URL, no canvas
NoPrep ==
  [stage |-> "none", urlLive |-> FALSE, imgWidth |-> 0, imgHeight |-> 0,
   width |-> 0, height |-> 0]

\* resizeAndConvertToBase64 up to img.src = url: the object URL exists and
\* the image is loading
PrepStart ==
  [stage |-> "loading", urlLive |-> TRUE, imgWidth |-> 0, imgHeight |-> 0,
   width |-> 0, height |-> 0]

IdleOp ==
  [ pc |-> "idle", mode |-> "auto", file |-> NoFile,
    round |-> 0, retryCount |-> 0,
    captions |-> << >>, idx |-> 0, filtered |-> << >>,
    modal |-> << >>, selectedCaption |-> << >>,
    newName |-> << >>, target |-> << >>, sdkMaxRetries |-> 0,
    request |-> NoRequest,
    prep |-> NoPrep,       \* the pending resizeAndConvertToBase64 call
    raw |-> << >>,         \* result.object.captions of the last answer
    aborted |-> FALSE, timerArmed |-> FALSE, timedOut |-> FALSE,
    error |-> "none", notice |-> "none",
    \* history of the operation, read by the properties only
    attempts |-> 0,        \* generateCaptions calls of this caption round
    totalAttempts |-> 0,   \* generateCaptions calls of the operation
    okAttempts |-> 0,      \* attempts when an attempt of this round succeeded
    netReqs |-> 0,         \* network requests of this caption round
    sdkRetries |-> 0,      \* retries made inside the pending generateObject
    lastThrown |-> "none", \* what the last generateCaptions call threw
    lastCaught |-> "none", \* what its catch block had caught, if it ran
    delays |-> << >>,      \* the backoff delays of this caption round, in ms
    lookups |-> << >>,     \* what filterDuplicateNames found at each path
    checked |-> << >>,     \* the testPath of each candidate
    emptyRounds |-> 0,     \* caption rounds whose filter kept no candidate
    opened |-> FALSE,      \* the selection dialog was opened
    submitted |-> FALSE,   \* the dialog's Rename button was acted on
    atCheck |-> "none",    \* the target at performRename's lookup
    renameCalls |-> 0,     \* calls of fileManager.renameFile
    atUnload |-> FALSE,    \* onunload ran while the pending request was in flight
    started |-> DEFAULT_SETTINGS ]  \* this.settings when the command was run

(***************************************************************************)
(* The vault and the rename target                                         *)
(***************************************************************************)
\* app.vault.getAbstractFileByPath
getAbstractFileByPath(path0) ==
  Bind(path0, LAMBDA path :
    IF \E f \in Files : vault[f] = path
    THEN CHOOSE f \in Files : vault[f] = path
    ELSE NoFile)

RECURSIVE NatToStr(_)
NatToStr(n) ==
  IF n < 10 THEN << Digits[n + 1] >>
  ELSE NatToStr(n \div 10) \o << Digits[(n % 10) + 1] >>

\* String(n).padStart(2, "0")
PadStart2(str) == IF Len(str) < 2 THEN << "0" >> \o str ELSE str

\* the null of getImageDate
NoDate == << >>

\* getImageDate with Date.getMonth's number taken as the month
getImageDateMonthFromZero(f) ==
  LET ct == FileCtime(f)
  IN IF ct = NoCtime THEN NoDate
     ELSE NatToStr(ct.year) \o << "-" >> \o PadStart2(NatToStr(ct.month))
          \o << "-" >> \o PadStart2(NatToStr(ct.date))

\* getImageDate: YYYY-MM-DD of the creation time, null without one
getImageDate(f) ==
  LET ct == FileCtime(f)
  IN IF ct = NoCtime THEN NoDate
     ELSE NatToStr(ct.year) \o << "-" >> \o PadStart2(NatToStr(ct.month + 1))
          \o << "-" >> \o PadStart2(NatToStr(ct.date))

\* finalName of filterDuplicateNames and of performRename
FinalName(f, name, datePrefix) ==
  IF datePrefix /\ getImageDate(f) # NoDate
  THEN getImageDate(f) \o << "-" >> \o name
  ELSE name

\* normalizePath(`${file.parent?.path || ""}/${finalName}.${file.extension}`)
TargetPath(f, name, datePrefix) ==
  normalizePath(ParentPath(vault[f]) \o << "/" >> \o FinalName(f, name, datePrefix)
                \o << "." >> \o Extension(vault[f]))

(***************************************************************************)
(* generateCaptions: the model provider                                    *)
(***************************************************************************)
\* s.endsWith("/" + piece)
EndsWithPiece(s0, piece) ==
  Bind(s0, LAMBDA s : Len(s) >= 2 /\ s[Len(s)] = piece)

\* s.replace(/\/piece$/, "")
StripLastPiece(s0, piece) ==
  Bind(s0, LAMBDA s :
    IF EndsWithPiece(s, piece) THEN SubSeq(s, 1, Len(s) - 1) ELSE s)

\* s.replace(/\/v1\/.*$/, "")
StripFromV1(s0) ==
  Bind(s0, LAMBDA s :
    LET hits == { i \in 2 .. (Len(s) - 1) : s[i] = "v1" }
    IN IF hits = {} THEN s
       ELSE SubSeq(s, 1, (CHOOSE i \in hits : \A j \in hits : i <= j) - 1))

\* the base URL handed to createOllama
LocalBaseURL(endpoint) ==
  LET baseURL == StripFromV1(StripLastPiece(endpoint, "chat"))
      withApi == IF EndsWithPiece(baseURL, "api") THEN baseURL
                 ELSE StripLastPiece(baseURL, "") \o << "api" >>
  IN IF withApi = << "" >>
     THEN << "http:", "", "localhost:11434", "api" >>
     ELSE withApi

\* the baseURL option of createOpenAI left undefined
Undefined == << >>

\* the pieces that include "api.openai.com"
IncludesOpenAIHost(s) == \E i \in DOMAIN s : s[i] \in {"api.openai.com"}

\* the base URL handed to createOpenAI
CloudBaseURL(endpoint) ==
  LET stripped == IF EndsWithPiece(endpoint, "completions")
                     /\ EndsWithPiece(SubSeq(endpoint, 1, Len(endpoint) - 1),
                                      "chat")
                  THEN SubSeq(endpoint, 1, Len(endpoint) - 2)
                  ELSE endpoint
      baseURL == StripLastPiece(stripped, "v1")
  IN IF IncludesOpenAIHost(baseURL) THEN Undefined ELSE baseURL

\* LocalRequest taking the stored endpoint and model whatever the preset
LocalRequestStoredFields ==
  [provider |-> "ollama", endpoint |-> settings.localApiEndpoint,
   baseURL |-> LocalBaseURL(settings.localApiEndpoint),
   model |-> settings.localModel, apiKey |-> ""]

\* generateCaptions, "Ollama setup": the model of a local request
LocalRequest ==
  LET preset == LOCAL_MODEL_PRESETS[settings.localModelServer]
      ollamaEndpoint == IF settings.localModelServer # "custom"
                        THEN preset.endpoint
                        ELSE settings.localApiEndpoint
      ollamaModel == IF settings.localModelServer # "custom"
                     THEN preset.model ELSE settings.localModel
  IN [provider |-> "ollama", endpoint |-> ollamaEndpoint,
      baseURL |-> LocalBaseURL(ollamaEndpoint),
      model |-> ollamaModel, apiKey |-> ""]

\* generateCaptions, "OpenAI setup": the model of a cloud request
CloudRequest ==
  [provider |-> "openai", endpoint |-> settings.apiEndpoint,
   baseURL |-> CloudBaseURL(settings.apiEndpoint),
   model |-> settings.model, apiKey |-> settings.apiKey]

\* ResolveRequest going by the stored useLocalModel alone
ResolveRequestOnMobile ==
  IF settings.useLocalModel THEN LocalRequest ELSE CloudRequest

\* generateCaptions: the model the request is made with
ResolveRequest ==
  IF settings.useLocalModel /\ ~isMobile THEN LocalRequest ELSE CloudRequest

(***************************************************************************)
(* generateCaptions: error classification                                  *)
(***************************************************************************)
\* error.name of what generateObject throws
ErrorName(e) == IF e = "abort" THEN "AbortError" ELSE "Error"

\* error.message.includes(sub) for the substrings the catch block tests
MessageIncludes(e, sub) ==
  \/ e = "http401" /\ sub \in {"401", "Unauthorized"}
  \/ e = "http429" /\ sub = "429"
  \/ e \in {"modelNotFound", "overloaded", "schemaQuotesModel"} /\ sub = "model"

\* the catch block of generateCaptions: the error it throws for e
ClassifyError(e) ==
  IF ErrorName(e) = "AbortError" THEN "Request timeout"
  ELSE IF MessageIncludes(e, "401") \/ MessageIncludes(e, "Unauthorized")
       THEN "Invalid API key"
  ELSE IF MessageIncludes(e, "429") THEN "Rate limit exceeded"
  ELSE IF MessageIncludes(e, "model") THEN "Model not found"
  ELSE e

\* the failures the AI SDK retries by itself, up to its maxRetries option
SdkRetryable(e) == e \in {"http429", "network", "overloaded"}

(***************************************************************************)
(* The operation, from one suspension point to the next.  Each operator    *)
(* takes the locals r of one operation and gives them as they are when the *)
(* code next awaits something outside the plugin or returns.               *)
(***************************************************************************)
\* isImageFile
isImageFile(path) ==
  ToLowerCase(Extension(path)) \in
    { << "j", "p", "g" >>, << "j", "p", "e", "g" >>, << "p", "n", "g" >>,
      << "g", "i", "f" >>, << "w", "e", "b", "p" >>, << "b", "m", "p" >>,
      << "s", "v", "g" >> }

\* RenameCheck without the duplicate check before renameFile
RenameCheckUnchecked(r, datePrefix) ==
  LET newPath == TargetPath(r.file, r.newName, datePrefix)
  IN [r EXCEPT !.atCheck =
                 IF \E f \in Files \ {r.file} : vault[f] = newPath
                 THEN "occupied" ELSE "free",
               !.pc = "renaming", !.target = newPath, !.renameCalls = @ + 1]

\* performRename from the computation of newPath on
RenameCheck(r0, datePrefix) ==
  Bind(r0, LAMBDA r :
    LET newPath == TargetPath(r.file, r.newName, datePrefix)
        existingFile == getAbstractFileByPath(newPath)
        r1 == [r EXCEPT !.atCheck =
                 IF \E f \in Files \ {r.file} : vault[f] = newPath
                 THEN "occupied" ELSE "free"]
    IN IF existingFile # NoFile /\ existingFile # r.file
       THEN [r1 EXCEPT !.pc = "done", !.notice = "conflict"]
       ELSE [r1 EXCEPT !.pc = "renaming", !.target = newPath,
                       !.renameCalls = @ + 1])

\* performRename up to its first suspension
performRename(r0, newName) ==
  Bind(r0, LAMBDA r :
    IF settings.datePrefix
    THEN [r EXCEPT !.pc = "date", !.newName = newName]
    ELSE RenameCheck([r EXCEPT !.newName = newName], FALSE))

\* OperationFailed falling back to a default name instead of giving up
OperationFailedFallsBack(r, err) ==
  performRename([r EXCEPT !.error = err, !.notice = "error"], << "u" >>)

\* the catch block of renameImageFile and renameImageFileInteractive
OperationFailed(r0, err) ==
  Bind(r0, LAMBDA r :
    [r EXCEPT !.pc = "failed", !.error = err, !.notice = "error"])

\* ShouldRetry with the bound off by one
ShouldRetryOffByOne(retryCount, err) == retryCount < settings.maxRetries

\* generateCaptionsWithRetry: retryCount < this.settings.maxRetries - 1
ShouldRetry(retryCount, err) == retryCount < settings.maxRetries - 1

\* BackoffDelay without the cap
BackoffDelayUncapped(retryCount) == 1000 * 2 ^ retryCount

\* generateCaptionsWithRetry: Math.min(1000 * 2 ** retryCount, 10000)
BackoffDelay(retryCount) ==
  LET exponential == 1000 * 2 ^ retryCount
  IN IF exponential < 10000 THEN exponential ELSE 10000

\* generateCaptionsWithRetry, catch: back off and retry, or rethrow
CaughtByRetry(r0, err) ==
  Bind(r0, LAMBDA r :
    IF ShouldRetry(r.retryCount, err)
    THEN [r EXCEPT !.pc = "backoff",
                   !.delays = Append(@, BackoffDelay(r.retryCount))]
    ELSE OperationFailed(r, err))

\* EnterGenerateCaptions taking useLocalModel as it is stored, on mobile too
EnterGenerateCaptionsTrustsSetting(r) ==
  LET r1 == [r EXCEPT !.attempts = @ + 1, !.totalAttempts = @ + 1]
  IN IF ~settings.useLocalModel /\ settings.apiKey = ""
     THEN CaughtByRetry([r1 EXCEPT !.lastThrown = "config", !.lastCaught = "none"], "config")
     ELSE [r1 EXCEPT !.pc = "read"]

\* generateCaptions up to readBinary: the API key check
EnterGenerateCaptions(r0) ==
  Bind(r0, LAMBDA r :
    LET shouldUseLocal == settings.useLocalModel /\ ~isMobile
        r1 == [r EXCEPT !.attempts = @ + 1, !.totalAttempts = @ + 1]
    IN IF ~shouldUseLocal /\ settings.apiKey = ""
       THEN CaughtByRetry([r1 EXCEPT !.lastThrown = "config", !.lastCaught = "none"], "config")
       ELSE [r1 EXCEPT !.pc = "read"])

\* a top-level call of generateCaptionsWithRetry(file): one caption round
StartRound(r0) ==
  Bind(r0, LAMBDA r :
    EnterGenerateCaptions(
      [r EXCEPT !.round = @ + 1, !.retryCount = 0, !.attempts = 0,
                !.delays = << >>,
                !.okAttempts = 0, !.netReqs = 0, !.lastThrown = "none", !.lastCaught = "none"]))

\* OpenModal handing over the unfiltered captions of the round
OpenModalUnfiltered(r, captions) ==
  [r EXCEPT !.pc = "dialog", !.modal = r.captions, !.opened = TRUE,
            !.selectedCaption = r.captions[1]]

\* new CaptionSelectionModal(app, plugin, file, captions, onSubmit).open()
OpenModal(r0, captions) ==
  Bind(r0, LAMBDA r :
    [r EXCEPT !.pc = "dialog", !.modal = captions, !.opened = TRUE,
              !.selectedCaption = IF captions # << >> THEN captions[1] ELSE << >>])

\* AutoChoice taking the last candidate
AutoChoiceLast(available) == available[Len(available)]

\* which of its candidates renameImageFile passes to performRename
AutoChoice(available) == available[1]

\* AfterFilter asking for new captions whenever none is available
AfterFilterRetriesAgain(r) ==
  IF r.filtered = << >>
  THEN StartRound(r)
  ELSE IF r.mode = "auto"
       THEN performRename(r, AutoChoice(r.filtered))
       ELSE OpenModal(r, r.filtered)

\* renameImageFile / renameImageFileInteractive after filterDuplicateNames
AfterFilter(r0) ==
  Bind(r0, LAMBDA r :
    IF r.filtered = << >>
    THEN IF r.round = 1
         THEN StartRound(r)
         ELSE IF r.mode = "auto"
              THEN [r EXCEPT !.pc = "done", !.notice = "exhausted"]
              ELSE OpenModal(r, << >>)
    ELSE IF r.mode = "auto"
         THEN performRename(r, AutoChoice(r.filtered))
         ELSE OpenModal(r, r.filtered))

\* IsAvailable letting every candidate through
IsAvailableAlways(existingFile, file) == TRUE

\* filterDuplicateNames: availability of one looked-up path
IsAvailable(existingFile, file) == existingFile = NoFile \/ existingFile = file

\* FilterOne keeping a candidate once only
FilterOneOnce(r, datePrefix) ==
  LET caption == r.captions[r.idx]
      testPath == TargetPath(r.file, caption, datePrefix)
      existingFile == getAbstractFileByPath(testPath)
  IN [r EXCEPT !.idx = @ + 1,
               !.lookups = Append(@, existingFile),
               !.checked = Append(@, testPath),
               !.filtered = IF IsAvailable(existingFile, r.file)
                               /\ caption \notin Range(r.filtered)
                            THEN Append(@, caption) ELSE @]

\* filterDuplicateNames: one iteration of the loop, after its getImageDate
FilterOne(r0, datePrefix) ==
  Bind(r0, LAMBDA r :
    LET caption == r.captions[r.idx]
        testPath == TargetPath(r.file, caption, datePrefix)
        existingFile == getAbstractFileByPath(testPath)
    IN [r EXCEPT !.idx = @ + 1,
                 !.lookups = Append(@, existingFile),
                 !.checked = Append(@, testPath),
                 !.filtered = IF IsAvailable(existingFile, r.file)
                              THEN Append(@, caption) ELSE @])

\* filterDuplicateNames: the loop, up to the next await of getImageDate
RECURSIVE FilterLoop(_)
FilterLoop(r0) ==
  Bind(r0, LAMBDA r :
    IF r.idx > Len(r.captions)
    THEN AfterFilter([r EXCEPT !.emptyRounds =
                        IF r.filtered = << >> THEN @ + 1 ELSE @])
    ELSE IF settings.datePrefix THEN [r EXCEPT !.pc = "filter"]
    ELSE FilterLoop(FilterOne(r, FALSE)))

\* CaptionsReturned going on to the rename without the collision filter
CaptionsReturnedUnfiltered(r, captions) ==
  IF Len(captions) = 0
  THEN [r EXCEPT !.pc = "done", !.notice = "nocaptions"]
  ELSE AfterFilter([r EXCEPT !.captions = captions, !.idx = 1,
                             !.filtered = captions, !.lookups = << >>,
                             !.checked = << >>])

\* renameImageFile / renameImageFileInteractive after a caption round
CaptionsReturned(r0, captions) ==
  Bind(r0, LAMBDA r :
    IF Len(captions) = 0
    THEN [r EXCEPT !.pc = "done", !.notice = "nocaptions"]
    ELSE FilterLoop([r EXCEPT !.captions = captions, !.idx = 1,
                              !.filtered = << >>, !.lookups = << >>,
                              !.checked = << >>]))

(***************************************************************************)
(* Initial states                                                          *)
(***************************************************************************)
\* where another actor may put a file: paths that candidate names can have
NewFilePaths ==
  { << "d", "/", "A", ".", "p", "n", "g" >>,
    << "d", "/", "2", "0", "2", "4", "-", "0", "3", "-", "0", "5", "-", "A",
       ".", "p", "n", "g" >> }

\* the backend selections: API key, useLocalModel, app.isMobile
Profiles ==
  { [apiKey |-> "sk", useLocalModel |-> FALSE, isMobile |-> FALSE],
    [apiKey |-> "", useLocalModel |-> FALSE, isMobile |-> FALSE],
    [apiKey |-> "", useLocalModel |-> TRUE, isMobile |-> FALSE],
    [apiKey |-> "", useLocalModel |-> TRUE, isMobile |-> TRUE] }

Init ==
  /\ \E p \in Profiles, d \in BOOLEAN, m \in 1 .. MaxRetriesBound :
       /\ d => p.apiKey # ""
       /\ settings = [DEFAULT_SETTINGS EXCEPT
                        !.apiKey = p.apiKey, !.useLocalModel = p.useLocalModel,
                        !.datePrefix = d, !.maxRetries = m]
       /\ isMobile = p.isMobile
  /\ vault = [f \in Files |-> InitialPath(f)]
  /\ abortController = 0
  /\ unloaded = FALSE
  /\ op = [o \in Ops |-> IdleOp]

(***************************************************************************)
(* Actions                                                                 *)
(***************************************************************************)
\* the user runs "Rename with best suggestion" (auto) or "Rename from
\* suggestions" (interactive) on an image: renameImageFile(file) or
\* renameImageFileInteractive(file) up to the first suspension
Start(o, mode, f) ==
  /\ ~unloaded
  /\ op[o].pc = "idle"
  /\ \A q \in Ops : q < o => op[q].pc # "idle"
  /\ vault[f] # NoPath /\ isImageFile(vault[f])
  /\ op' = [op EXCEPT ![o] =
              StartRound([IdleOp EXCEPT !.mode = mode, !.file = f,
                                        !.started = settings])]
  /\ UNCHANGED << unloaded, vault, settings, isMobile, abortController >>

\* app.vault.readBinary(file) settles
ReadDone(o, ok) ==
  /\ op[o].pc = "read"
  /\ op' = [op EXCEPT ![o] =
              IF ok THEN [@ EXCEPT !.pc = "prep", !.prep = PrepStart]
              ELSE CaughtByRetry([@ EXCEPT !.lastThrown = "io", !.lastCaught = "none"], "io")]
  /\ UNCHANGED << unloaded, vault, settings, isMobile, abortController >>

\* resizeAndConvertToBase64 settles; on success generateCaptions creates the
\* abort controller, arms the timeout timer and calls generateObject
PrepDone(o, ok) ==
  /\ op[o].pc = "prep"
  /\ IF ok
     THEN /\ abortController' = o
          /\ op' = [op EXCEPT ![o] =
                      [@ EXCEPT !.pc = "inflight", !.aborted = FALSE,
                                !.timerArmed = TRUE, !.timedOut = FALSE,
                                !.sdkMaxRetries = settings.maxRetries,
                                !.sdkRetries = 0, !.netReqs = @ + 1,
                                !.atUnload = FALSE,
                                !.request = ResolveRequest]]
     ELSE /\ abortController' = abortController
          /\ op' = [op EXCEPT ![o] =
                      CaughtByRetry([@ EXCEPT !.lastThrown = "decode", !.lastCaught = "none"], "decode")]
  /\ UNCHANGED << unloaded, vault, settings, isMobile >>

\* the longest edge the canvas may have
maxSize == 512

\* what canvas.width and canvas.height keep of an assigned number: its
\* integer part
CanvasEdge(num, den) == num \div den

\* Resize capping the width of landscape images only
ResizeLandscapeOnly(w, h) ==
  IF w > h /\ w > maxSize
  THEN [width |-> maxSize, height |-> CanvasEdge(h * maxSize, w)]
  ELSE [width |-> w, height |-> h]

\* img.onload: the dimensions given to the canvas for an image of w by h
Resize(w, h) ==
  IF w > h
  THEN IF w > maxSize
       THEN [width |-> maxSize, height |-> CanvasEdge(h * maxSize, w)]
       ELSE [width |-> w, height |-> h]
  ELSE IF h > maxSize
       THEN [width |-> CanvasEdge(w * maxSize, h), height |-> maxSize]
       ELSE [width |-> w, height |-> h]

\* ImgLoad without the finally block that revokes the object URL
ImgLoadKeepsURL(o, w, h, ctxOk) ==
  /\ op[o].pc = "prep" /\ op[o].prep.stage = "loading"
  /\ op' = [op EXCEPT ![o].prep =
              [stage |-> IF ctxOk THEN "encoding" ELSE "rejected",
               urlLive |-> TRUE, imgWidth |-> w, imgHeight |-> h,
               width |-> Resize(w, h).width, height |-> Resize(w, h).height]]
  /\ UNCHANGED << unloaded, vault, settings, isMobile, abortController >>

\* img.onload for an image of w by h: the canvas is sized; without a 2d
\* context the promise is rejected, else toBlob is called; the object URL
\* is revoked either way
ImgLoad(o, w, h, ctxOk) ==
  /\ op[o].pc = "prep" /\ op[o].prep.stage = "loading"
  /\ op' = [op EXCEPT ![o].prep =
              [stage |-> IF ctxOk THEN "encoding" ELSE "rejected",
               urlLive |-> FALSE, imgWidth |-> w, imgHeight |-> h,
               width |-> Resize(w, h).width, height |-> Resize(w, h).height]]
  /\ UNCHANGED << unloaded, vault, settings, isMobile, abortController >>

\* img.onerror: the object URL is revoked and the promise rejected
ImgError(o) ==
  /\ op[o].pc = "prep" /\ op[o].prep.stage = "loading"
  /\ op' = [op EXCEPT ![o].prep =
              [@ EXCEPT !.stage = "rejected", !.urlLive = FALSE]]
  /\ UNCHANGED << unloaded, vault, settings, isMobile, abortController >>

\* the callback of canvas.toBlob: with a blob the FileReader is started,
\* without one the promise is rejected; a canvas without pixels has no blob
ToBlobDone(o, blobOk) ==
  /\ op[o].pc = "prep" /\ op[o].prep.stage = "encoding"
  /\ blobOk => (op[o].prep.width >= 1 /\ op[o].prep.height >= 1)
  /\ op' = [op EXCEPT ![o].prep =
              [@ EXCEPT !.stage = IF blobOk THEN "reading" ELSE "rejected"]]
  /\ UNCHANGED << unloaded, vault, settings, isMobile, abortController >>

\* reader.onloadend resolves the promise, reader.onerror rejects it
ReaderDone(o, ok) ==
  /\ op[o].pc = "prep" /\ op[o].prep.stage = "reading"
  /\ op' = [op EXCEPT ![o].prep =
              [@ EXCEPT !.stage = IF ok THEN "resolved" ELSE "rejected"]]
  /\ UNCHANGED << unloaded, vault, settings, isMobile, abortController >>

\* the timeout timer of o's attempt fires: this.abortController?.abort()
TimerFire(o) ==
  /\ op[o].timerArmed
  /\ op' = [q \in Ops |->
              LET r == IF q = o
                       THEN [op[q] EXCEPT !.timerArmed = FALSE, !.timedOut = TRUE]
                       ELSE op[q]
              IN IF q = abortController THEN [r EXCEPT !.aborted = TRUE] ELSE r]
  /\ UNCHANGED << unloaded, vault, settings, isMobile, abortController >>

\* inside generateObject: a request failed in a way the SDK retries, and
\* its maxRetries option allows one more request
SdkRetry(o) ==
  /\ op[o].pc = "inflight" /\ ~op[o].aborted
  /\ op[o].sdkRetries < op[o].sdkMaxRetries
  /\ op' = [op EXCEPT ![o] =
              [@ EXCEPT !.sdkRetries = @ + 1, !.netReqs = @ + 1]]
  /\ UNCHANGED << unloaded, vault, settings, isMobile, abortController >>

\* generateObject resolves with a valid object: the rest of generateCaptions
\* (clearTimeout, sanitize, finally) and of the operation up to its next
\* suspension
ResponseOk(o, raw) ==
  /\ op[o].pc = "inflight" /\ ~op[o].aborted
  /\ \E captions \in {[i \in DOMAIN raw |-> sanitizeFilename(raw[i], settings)]} :
     LET r == [op[o] EXCEPT !.timerArmed = FALSE, !.timedOut = FALSE,
                            !.sdkRetries = 0, !.sdkMaxRetries = 0,
                            !.atUnload = FALSE]
     IN op' = [op EXCEPT ![o] =
                 IF Len(captions) = 0
                 THEN CaughtByRetry([r EXCEPT !.lastThrown = "No captions generated",
                                        !.lastCaught = "No captions generated"],
                                    "No captions generated")
                 ELSE CaptionsReturned([r EXCEPT !.okAttempts = r.attempts,
                                                 !.raw = raw], captions)]
  /\ abortController' = 0
  /\ UNCHANGED << unloaded, vault, settings, isMobile >>

\* ResponseError without the clearTimeout of the catch block
ResponseErrorKeepsTimer(o, e) ==
  /\ op[o].pc = "inflight"
  /\ (e = "abort") = op[o].aborted
  /\ SdkRetryable(e) => op[o].sdkRetries = op[o].sdkMaxRetries
  /\ op' = [op EXCEPT ![o] =
              CaughtByRetry([@ EXCEPT !.aborted = FALSE, !.sdkRetries = 0,
                                      !.sdkMaxRetries = 0, !.atUnload = FALSE,
                                      !.lastThrown = ClassifyError(e),
                                      !.lastCaught = e],
                            ClassifyError(e))]
  /\ abortController' = 0
  /\ UNCHANGED << unloaded, vault, settings, isMobile >>

\* generateObject rejects with e: the catch and finally blocks of
\* generateCaptions, then the catch of generateCaptionsWithRetry
ResponseError(o, e) ==
  /\ op[o].pc = "inflight"
  /\ (e = "abort") = op[o].aborted
  /\ SdkRetryable(e) => op[o].sdkRetries = op[o].sdkMaxRetries
  /\ op' = [op EXCEPT ![o] =
              CaughtByRetry([@ EXCEPT !.timerArmed = FALSE, !.timedOut = FALSE,
                                      !.aborted = FALSE, !.sdkRetries = 0,
                                      !.sdkMaxRetries = 0, !.atUnload = FALSE,
                                      !.lastThrown = ClassifyError(e),
                                      !.lastCaught = e],
                            ClassifyError(e))]
  /\ abortController' = 0
  /\ UNCHANGED << unloaded, vault, settings, isMobile >>

\* the backoff delay of generateCaptionsWithRetry has elapsed:
\* generateCaptionsWithRetry(file, retryCount + 1)
BackoffDone(o) ==
  /\ op[o].pc = "backoff"
  /\ op' = [op EXCEPT ![o] =
              EnterGenerateCaptions([@ EXCEPT !.retryCount = @ + 1,
                                              !.lastThrown = "none", !.lastCaught = "none"])]
  /\ UNCHANGED << unloaded, vault, settings, isMobile, abortController >>

\* filterDuplicateNames: getImageDate settles for candidate idx
FilterStep(o) ==
  /\ op[o].pc = "filter"
  /\ op' = [op EXCEPT ![o] = FilterLoop(FilterOne(@, TRUE))]
  /\ UNCHANGED << unloaded, vault, settings, isMobile, abortController >>

\* performRename: getImageDate settles
DateDone(o) ==
  /\ op[o].pc = "date"
  /\ op' = [op EXCEPT ![o] = RenameCheck(@, TRUE)]
  /\ UNCHANGED << unloaded, vault, settings, isMobile, abortController >>

\* RenameDone calling renameFile again when it failed
RenameDoneRetries(o, ok) ==
  /\ op[o].pc = "renaming"
  /\ LET r == op[o]
         free == \A f \in Files \ {r.file} : vault[f] # r.target
     IN IF ok /\ free
        THEN /\ vault' = [vault EXCEPT ![r.file] = r.target]
             /\ op' = [op EXCEPT ![o] = [@ EXCEPT !.pc = "done", !.notice = "renamed"]]
        ELSE /\ vault' = vault
             /\ op' = [op EXCEPT ![o] =
                         [@ EXCEPT !.notice = "renameFailed",
                                   !.renameCalls = @ + 1]]
  /\ UNCHANGED << unloaded, settings, isMobile, abortController >>

\* app.fileManager.renameFile(file, newPath) settles: it renames unless the
\* target exists or the storage rejects the rename
RenameDone(o, ok) ==
  /\ op[o].pc = "renaming"
  /\ LET r == op[o]
         free == \A f \in Files \ {r.file} : vault[f] # r.target
     IN IF ok /\ free
        THEN /\ vault' = [vault EXCEPT ![r.file] = r.target]
             /\ op' = [op EXCEPT ![o] = [@ EXCEPT !.pc = "done", !.notice = "renamed"]]
        ELSE /\ vault' = vault
             /\ op' = [op EXCEPT ![o] =
                         [@ EXCEPT !.pc = "done", !.notice = "renameFailed"]]
  /\ UNCHANGED << unloaded, settings, isMobile, abortController >>

\* CaptionSelectionModal: the user picks the radio button of a suggestion
SelectRadio(o, i) ==
  /\ op[o].pc = "dialog"
  /\ i \in DOMAIN op[o].modal
  /\ op' = [op EXCEPT ![o] = [@ EXCEPT !.selectedCaption = op[o].modal[i]]]
  /\ UNCHANGED << unloaded, vault, settings, isMobile, abortController >>

\* CaptionSelectionModal: the user edits the text input
TypeText(o, text) ==
  /\ op[o].pc = "dialog"
  /\ op' = [op EXCEPT ![o] = [@ EXCEPT !.selectedCaption = text]]
  /\ UNCHANGED << unloaded, vault, settings, isMobile, abortController >>

\* CaptionSelectionModal: the Cancel button
Cancel(o) ==
  /\ op[o].pc = "dialog"
  /\ op' = [op EXCEPT ![o] = [@ EXCEPT !.pc = "done", !.notice = "cancelled"]]
  /\ UNCHANGED << unloaded, vault, settings, isMobile, abortController >>

\* the Rename button: is the click acted on
ConfirmAccepts(selectedCaption) == Trim(selectedCaption) # << >>

\* CaptionSelectionModal: the Rename button, then onSubmit -> performRename
Confirm(o) ==
  /\ op[o].pc = "dialog"
  /\ ConfirmAccepts(op[o].selectedCaption)
  /\ op' = [op EXCEPT ![o] =
              performRename([@ EXCEPT !.submitted = TRUE], Trim(@.selectedCaption))]
  /\ UNCHANGED << unloaded, vault, settings, isMobile, abortController >>

\* another actor (the user, a sync service) creates a file in the vault
CreateFile(f, path) ==
  /\ vault[f] = NoPath
  /\ getAbstractFileByPath(path) = NoFile
  /\ vault' = [vault EXCEPT ![f] = path]
  /\ UNCHANGED << unloaded, settings, isMobile, abortController, op >>

\* one operation with every input, and other actors creating files
\* the plugin is disabled or removed: onunload aborts the controller that
\* this.abortController holds, when it holds one
Unload ==
  /\ ~unloaded
  /\ unloaded' = TRUE
  /\ op' = [q \in Ops |->
              LET r == [op[q] EXCEPT !.atUnload = (op[q].pc = "inflight")]
              IN IF q = abortController THEN [r EXCEPT !.aborted = TRUE] ELSE r]
  /\ UNCHANGED << vault, settings, isMobile, abortController >>

Next ==
  \/ \E mode \in {"auto", "interactive"}, f \in ImageFiles : Start(1, mode, f)
  \/ \E ok \in BOOLEAN : ReadDone(1, ok)
  \/ \E ok \in BOOLEAN : PrepDone(1, ok)
  \/ TimerFire(1)
  \/ SdkRetry(1)
  \/ \E raw \in RawCaptionLists : ResponseOk(1, raw)
  \/ \E e \in RawErrors : ResponseError(1, e)
  \/ BackoffDone(1)
  \/ FilterStep(1)
  \/ DateDone(1)
  \/ \E ok \in BOOLEAN : RenameDone(1, ok)
  \/ \E i \in 1 .. 5 : SelectRadio(1, i)
  \/ \E text \in UserTexts : TypeText(1, text)
  \/ Cancel(1)
  \/ Confirm(1)
  \/ \E f \in Files, path \in NewFilePaths : CreateFile(f, path)
  \/ Unload

Spec == Init /\ [][Next]_vars

\* two overlapping operations, the backend answering with one caption or
\* failing with a timeout or a schema violation
InitOverlap ==
  /\ \E d \in BOOLEAN, m \in 1 .. MaxRetriesBound :
       settings = [DEFAULT_SETTINGS EXCEPT
                     !.apiKey = "sk", !.datePrefix = d, !.maxRetries = m]
  /\ isMobile = FALSE
  /\ vault = [f \in Files |-> InitialPath(f)]
  /\ abortController = 0
  /\ unloaded = FALSE
  /\ op = [o \in Ops |-> IdleOp]

NextOverlap ==
  \/ \E o \in Ops, mode \in {"auto", "interactive"}, f \in ImageFiles :
       Start(o, mode, f)
  \/ \E o \in Ops : ReadDone(o, TRUE)
  \/ \E o \in Ops : PrepDone(o, TRUE)
  \/ \E o \in Ops : TimerFire(o)
  \/ \E o \in Ops : ResponseOk(o, << << "a" >> >>)
  \/ \E o \in Ops, e \in {"abort", "schema"} : ResponseError(o, e)
  \/ \E o \in Ops : BackoffDone(o)
  \/ \E o \in Ops : FilterStep(o)
  \/ \E o \in Ops : DateDone(o)
  \/ \E o \in Ops, ok \in BOOLEAN : RenameDone(o, ok)
  \/ \E o \in Ops : Cancel(o)
  \/ \E o \in Ops : Confirm(o)
  \/ Unload

SpecOverlap == InitOverlap /\ [][NextOverlap]_vars

\* the backend settings a user may have stored, for one operation that makes
\* one caption request
CloudEndpoints ==
  { OpenAIChatCompletions, << "https:", "", "x.example", "v1" >> }

LocalEndpoints ==
  { OllamaChat, << "http:", "", "h", "v1", "chat", "completions" >>, << "" >> }

InitResolve ==
  /\ \E key \in {"", "sk"}, local \in BOOLEAN,
        server \in DOMAIN LOCAL_MODEL_PRESETS,
        ce \in CloudEndpoints, le \in LocalEndpoints,
        lm \in {"llama3.2-vision:11b", "llava"} :
       settings = [DEFAULT_SETTINGS EXCEPT
                     !.apiKey = key, !.useLocalModel = local,
                     !.localModelServer = server, !.apiEndpoint = ce,
                     !.localApiEndpoint = le, !.localModel = lm,
                     !.maxRetries = 1]
  /\ isMobile \in BOOLEAN
  /\ vault = [f \in Files |-> InitialPath(f)]
  /\ abortController = 0
  /\ unloaded = FALSE
  /\ op = [o \in Ops |-> IdleOp]

NextResolve ==
  \/ Start(1, "auto", "f1")
  \/ ReadDone(1, TRUE)
  \/ PrepDone(1, TRUE)
  \/ ResponseError(1, "schema")

SpecResolve == InitResolve /\ [][NextResolve]_vars

\* the captions the backend may return under every naming policy: all
\* strings of 1 to MaxCaptionLen of these characters, and Scenario B's
MaxCaptionLen == 4

CaptionChars == {"a", "B", " ", "_", "-", "?"}

RECURSIVE StringsUpTo(_)
StringsUpTo(n) ==
  IF n = 0 THEN { << >> }
  ELSE LET shorter == StringsUpTo(n - 1)
       IN shorter \cup { Append(s, c) : s \in shorter, c \in CaptionChars }

SunsetBeach ==
  << "S", "u", "n", "s", "e", "t", " ", "B", "e", "a", "c", "h" >>

OceanView == << "O", "c", "e", "a", "n", " ", "V", "i", "e", "w" >>

sunsetbeach ==
  << "s", "u", "n", "s", "e", "t", " ", "b", "e", "a", "c", "h" >>

SanitizeInputs ==
  (StringsUpTo(MaxCaptionLen) \ { << >> })
    \cup { SunsetBeach, OceanView, sunsetbeach }

CaseStyles == {"lower", "upper", "title", "sentence", "preserve"}

InitSanitize ==
  /\ \E style \in CaseStyles, spaces \in BOOLEAN :
       settings = [DEFAULT_SETTINGS EXCEPT
                     !.apiKey = "sk", !.caseStyle = style,
                     !.allowSpaces = spaces, !.maxRetries = 1]
  /\ isMobile = FALSE
  /\ vault = [f \in Files |-> InitialPath(f)]
  /\ abortController = 0
  /\ unloaded = FALSE
  /\ op = [o \in Ops |-> IdleOp]

NextSanitize ==
  \/ Start(1, "auto", "f1")
  \/ ReadDone(1, TRUE)
  \/ PrepDone(1, TRUE)
  \/ \E c \in SanitizeInputs : ResponseOk(1, << c >>)

SpecSanitize == InitSanitize /\ [][NextSanitize]_vars

\* candidate lists against sets of existing files: the image is d/p.png or
\* p.png in the vault root, the other two files lie where candidates point,
\* with and without the date prefix, or elsewhere
FilterCaptionLists ==
  { << << "a" >> >>,
    << << "a" >>, << "b" >> >>,
    << << "p" >>, << "a" >> >>,
    << << "b" >>, << "a" >>, << "p" >> >>,
    << << "p" >>, << "a" >>, << "p" >> >>,
    << << "b" >>, << "b" >> >> }

ImagePaths ==
  { InitialPath("f1"), << "p", ".", "p", "n", "g" >> }

OtherFilePaths ==
  { NoPath,
    << "a", ".", "p", "n", "g" >>,
    << "d", "/", "q", ".", "p", "n", "g" >>,
    << "d", "/", "a", ".", "p", "n", "g" >>,
    << "d", "/", "b", ".", "p", "n", "g" >>,
    << "d", "/", "2", "0", "2", "4", "-", "0", "3", "-", "0", "5", "-", "a",
       ".", "p", "n", "g" >> }

InitFilter ==
  /\ \E d \in BOOLEAN :
       settings = [DEFAULT_SETTINGS EXCEPT
                     !.apiKey = "sk", !.caseStyle = "lower",
                     !.datePrefix = d, !.maxRetries = 1]
  /\ isMobile = FALSE
  /\ \E p1 \in ImagePaths, p2 \in OtherFilePaths, p3 \in OtherFilePaths :
       /\ p2 = p3 => p2 = NoPath
       /\ vault = [f \in Files |->
                     IF f = "f1" THEN p1
                     ELSE IF f = "f2" THEN p2 ELSE p3]
  /\ abortController = 0
  /\ unloaded = FALSE
  /\ op = [o \in Ops |-> IdleOp]

NextFilter ==
  \/ \E mode \in {"auto", "interactive"} : Start(1, mode, "f1")
  \/ ReadDone(1, TRUE)
  \/ PrepDone(1, TRUE)
  \/ \E raw \in FilterCaptionLists : ResponseOk(1, raw)
  \/ FilterStep(1)

SpecFilter == InitFilter /\ [][NextFilter]_vars

\* the rename target of every kind of name: Scenario C's candidate and
\* one-letter candidates, picked by the plugin or in the dialog, or a typed
\* name; an image with a creation time (in a folder or in the vault root)
\* and one without; a third file on a candidate's path or nowhere
MountainTrail ==
  << "M", "o", "u", "n", "t", "a", "i", "n", " ", "T", "r", "a", "i", "l" >>

TargetCaptionLists ==
  { << MountainTrail >>, << << "a" >>, << "b" >> >> }

InitTarget ==
  /\ \E d \in BOOLEAN :
       settings = [DEFAULT_SETTINGS EXCEPT
                     !.apiKey = "sk", !.datePrefix = d, !.maxRetries = 1]
  /\ isMobile = FALSE
  /\ \E p1 \in ImagePaths, p3 \in {NoPath} \cup NewFilePaths :
       vault = [f \in Files |->
                  IF f = "f1" THEN p1
                  ELSE IF f = "f2" THEN InitialPath("f2") ELSE p3]
  /\ abortController = 0
  /\ unloaded = FALSE
  /\ op = [o \in Ops |-> IdleOp]

NextTarget ==
  \/ \E mode \in {"auto", "interactive"}, f \in ImageFiles : Start(1, mode, f)
  \/ ReadDone(1, TRUE)
  \/ PrepDone(1, TRUE)
  \/ \E raw \in TargetCaptionLists : ResponseOk(1, raw)
  \/ FilterStep(1)
  \/ DateDone(1)
  \/ \E ok \in BOOLEAN : RenameDone(1, ok)
  \/ \E i \in 1 .. 2 : SelectRadio(1, i)
  \/ \E text \in UserTexts : TypeText(1, text)
  \/ Confirm(1)

SpecTarget == InitTarget /\ [][NextTarget]_vars

\* the endpoints a user may store, cloud or custom local: a host followed by
\* up to MaxPathPieces path pieces, for one operation that makes one request
MaxPathPieces == 3

PathPieces == {"v1", "chat", "completions", "api", "x", ""}

RECURSIVE EndpointsUpTo(_)
EndpointsUpTo(n) ==
  IF n = 0 THEN { << "http:", "", "h" >> }
  ELSE LET shorter == EndpointsUpTo(n - 1)
       IN shorter \cup { Append(e, p) : e \in shorter, p \in PathPieces }

InitNormalize ==
  /\ \E e \in EndpointsUpTo(MaxPathPieces), local \in BOOLEAN :
       settings = [DEFAULT_SETTINGS EXCEPT
                     !.apiKey = "sk", !.useLocalModel = local,
                     !.localModelServer = "custom", !.apiEndpoint = e,
                     !.localApiEndpoint = e, !.maxRetries = 1]
  /\ isMobile = FALSE
  /\ vault = [f \in Files |-> InitialPath(f)]
  /\ abortController = 0
  /\ unloaded = FALSE
  /\ op = [o \in Ops |-> IdleOp]

NextNormalize ==
  \/ Start(1, "auto", "f1")
  \/ ReadDone(1, TRUE)
  \/ PrepDone(1, TRUE)
  \/ ResponseError(1, "schema")

SpecNormalize == InitNormalize /\ [][NextNormalize]_vars

(***************************************************************************)
(* The settings: loadSettings and the settings tab                         *)
(***************************************************************************)
\* NaN, and a number, as parseInt gives them
NaN == [nan |-> TRUE, n |-> 0]

Num(n) == [nan |-> FALSE, n |-> n]

\* the value of a string of decimal digits
RECURSIVE DigitsValue(_)
DigitsValue(ds0) ==
  Bind(ds0, LAMBDA ds :
    IF ds = << >> THEN 0
    ELSE 10 * DigitsValue(SubSeq(ds, 1, Len(ds) - 1))
         + (IndexOf(Digits, ds[Len(ds)]) - 1))

\* the longest prefix of s made of decimal digits
RECURSIVE DigitPrefix(_)
DigitPrefix(s0) ==
  Bind(s0, LAMBDA s :
    IF s # << >> /\ Head(s) \in Range(Digits)
    THEN << Head(s) >> \o DigitPrefix(Tail(s)) ELSE << >>)

\* parseInt(value, 10): leading whitespace is skipped, a sign is read, then
\* digits as far as they go; NaN without a digit
parseInt(value) ==
  LET t == TrimStart(value)
      signed == t # << >> /\ Head(t) \in {"+", "-"}
      ds == DigitPrefix(IF signed THEN Tail(t) ELSE t)
  IN IF ds = << >> THEN NaN
     ELSE IF signed /\ Head(t) = "-" THEN Num(0 - DigitsValue(ds))
     ELSE Num(DigitsValue(ds))

\* x || fallback for a number x: NaN and 0 are falsy
OrElse(x, fallback) == IF x.nan \/ x.n = 0 THEN fallback ELSE x.n

\* Object.assign({}, DEFAULT_SETTINGS, data)
AssignOverDefaults(data) ==
  [k \in DOMAIN DEFAULT_SETTINGS |->
     IF k \in DOMAIN data THEN data[k] ELSE DEFAULT_SETTINGS[k]]

\* what loadData gives: nothing stored (an object without fields here), or
\* what saveSettings stored last, every edit of the tab being saved
StoredData == { << >>, settings }

\* onload of a re-enabled plugin: loadSettings
LoadSettings(data) ==
  /\ settings' = AssignOverDefaults(data)
  /\ UNCHANGED << vault, isMobile, abortController, unloaded, op >>

\* the Case Style dropdown
SetCaseStyle(value) ==
  /\ settings' = [settings EXCEPT !.caseStyle = value]
  /\ UNCHANGED << vault, isMobile, abortController, unloaded, op >>

\* the Date Prefix toggle
SetDatePrefix(value) ==
  /\ settings' = [settings EXCEPT !.datePrefix = value]
  /\ UNCHANGED << vault, isMobile, abortController, unloaded, op >>

\* the Allow Spaces toggle
SetAllowSpaces(value) ==
  /\ settings' = [settings EXCEPT !.allowSpaces = value]
  /\ UNCHANGED << vault, isMobile, abortController, unloaded, op >>

\* the Request Timeout text field, in seconds
SetTimeout(value) ==
  /\ LET seconds == OrElse(parseInt(value), 30)
     IN settings' = [settings EXCEPT !.timeoutMs = seconds * 1000]
  /\ UNCHANGED << vault, isMobile, abortController, unloaded, op >>

\* the Max Retries text field
SetMaxRetries(value) ==
  /\ settings' = [settings EXCEPT !.maxRetries = OrElse(parseInt(value), 3)]
  /\ UNCHANGED << vault, isMobile, abortController, unloaded, op >>

\* the Reset API Settings button, confirmed
ResetApiSettings ==
  /\ settings' = [settings EXCEPT
                    !.apiKey = "", !.localApiKey = "",
                    !.apiEndpoint = OpenAIChatCompletions,
                    !.localApiEndpoint = OllamaChat,
                    !.model = "gpt-4o-mini",
                    !.localModel = "llama3.2-vision:11b",
                    !.localModelServer = "ollama"]
  /\ UNCHANGED << vault, isMobile, abortController, unloaded, op >>

\* the Reset File Name Settings button, confirmed
ResetFileNameSettings ==
  /\ settings' = [settings EXCEPT
                    !.datePrefix = FALSE, !.caseStyle = "title",
                    !.allowSpaces = TRUE]
  /\ UNCHANGED << vault, isMobile, abortController, unloaded, op >>

\* the Reset All Settings to Defaults button, confirmed
ResetAllSettings ==
  /\ settings' = DEFAULT_SETTINGS
  /\ UNCHANGED << vault, isMobile, abortController, unloaded, op >>

\* what a user may type into the two number fields
NumberTexts ==
  { << >>, << "a" >>, << "0" >>, << "5" >>, << "1", "0" >>, << "2", "x" >>,
    << " ", "7" >>, << "-", "1" >>, << "1", ".", "5" >> }

\* the plugin just loaded, with an API key stored or nothing stored
InitSettings ==
  /\ \E key \in {"", "sk"} :
       settings = AssignOverDefaults([apiKey |-> key])
  /\ isMobile = FALSE
  /\ vault = [f \in Files |-> InitialPath(f)]
  /\ abortController = 0
  /\ unloaded = FALSE
  /\ op = [o \in Ops |-> IdleOp]

NextSettings ==
  \/ \E data \in StoredData : LoadSettings(data)
  \/ \E value \in CaseStyles : SetCaseStyle(value)
  \/ \E value \in BOOLEAN : SetDatePrefix(value)
  \/ \E value \in BOOLEAN : SetAllowSpaces(value)
  \/ \E value \in NumberTexts : SetTimeout(value)
  \/ \E value \in NumberTexts : SetMaxRetries(value)
  \/ ResetApiSettings
  \/ ResetFileNameSettings
  \/ ResetAllSettings

SpecSettings == InitSettings /\ [][NextSettings]_vars

\* caption rounds with up to MaxBackoffRetries attempts, every attempt
\* failing at one of its steps or succeeding
MaxBackoffRetries == 6

InitBackoff ==
  /\ \E m \in 1 .. MaxBackoffRetries :
       settings = [DEFAULT_SETTINGS EXCEPT !.apiKey = "sk", !.maxRetries = m]
  /\ isMobile = FALSE
  /\ vault = [f \in Files |-> InitialPath(f)]
  /\ abortController = 0
  /\ unloaded = FALSE
  /\ op = [o \in Ops |-> IdleOp]

NextBackoff ==
  \/ Start(1, "auto", "f1")
  \/ \E ok \in BOOLEAN : ReadDone(1, ok)
  \/ \E ok \in BOOLEAN : PrepDone(1, ok)
  \/ TimerFire(1)
  \/ ResponseOk(1, << << "a" >> >>)
  \/ \E e \in {"abort", "schema"} : ResponseError(1, e)
  \/ BackoffDone(1)
  \/ \E ok \in BOOLEAN : RenameDone(1, ok)

SpecBackoff == InitBackoff /\ [][NextBackoff]_vars

\* one operation, and the user editing the settings while it runs
RetryTexts == { << "1" >>, << "2" >> }

InitEdit ==
  /\ \E d \in BOOLEAN, m \in 1 .. MaxRetriesBound :
       settings = [DEFAULT_SETTINGS EXCEPT
                     !.apiKey = "sk", !.datePrefix = d, !.maxRetries = m]
  /\ isMobile = FALSE
  /\ vault = [f \in Files |-> InitialPath(f)]
  /\ abortController = 0
  /\ unloaded = FALSE
  /\ op = [o \in Ops |-> IdleOp]

NextEdit ==
  \/ \E mode \in {"auto", "interactive"} : Start(1, mode, "f1")
  \/ ReadDone(1, TRUE)
  \/ PrepDone(1, TRUE)
  \/ TimerFire(1)
  \/ ResponseOk(1, << << "a" >>, << "b" >> >>)
  \/ \E e \in {"abort", "schema"} : ResponseError(1, e)
  \/ BackoffDone(1)
  \/ FilterStep(1)
  \/ DateDone(1)
  \/ \E ok \in BOOLEAN : RenameDone(1, ok)
  \/ Confirm(1)
  \/ \E value \in BOOLEAN : SetDatePrefix(value)
  \/ \E value \in {"title", "lower"} : SetCaseStyle(value)
  \/ \E value \in RetryTexts : SetMaxRetries(value)

SpecEdit == InitEdit /\ [][NextEdit]_vars

\* the settled promise of resizeAndConvertToBase64 is delivered to
\* generateCaptions
PrepDelivered(o) ==
  /\ op[o].prep.stage \in {"resolved", "rejected"}
  /\ PrepDone(o, op[o].prep.stage = "resolved")

\* the preprocessor step by step, for images of these edge lengths
ImageEdges == {1, 2, 3, 300, 511, 512, 513, 700, 1024, 1025, 2048}

InitResize ==
  /\ settings = [DEFAULT_SETTINGS EXCEPT !.apiKey = "sk", !.maxRetries = 2]
  /\ isMobile = FALSE
  /\ vault = [f \in Files |-> InitialPath(f)]
  /\ abortController = 0
  /\ unloaded = FALSE
  /\ op = [o \in Ops |-> IdleOp]

NextResize ==
  \/ Start(1, "auto", "f1")
  \/ ReadDone(1, TRUE)
  \/ \E w \in ImageEdges, h \in ImageEdges, ctxOk \in BOOLEAN :
       ImgLoad(1, w, h, ctxOk)
  \/ ImgError(1)
  \/ \E blobOk \in BOOLEAN : ToBlobDone(1, blobOk)
  \/ \E ok \in BOOLEAN : ReaderDone(1, ok)
  \/ PrepDelivered(1)
  \/ BackoffDone(1)
  \/ ResponseError(1, "schema")

SpecResize == InitResize /\ [][NextResize]_vars

(***************************************************************************)
(* The catch block of generateCaptions on every failure of the request,    *)
(* those whose message holds a word it looks for included                  *)
(***************************************************************************)
InitClassify ==
  /\ \E m \in 1 .. MaxRetriesBound :
       settings = [DEFAULT_SETTINGS EXCEPT !.apiKey = "sk", !.maxRetries = m]
  /\ isMobile = FALSE
  /\ vault = [f \in Files |-> InitialPath(f)]
  /\ abortController = 0
  /\ unloaded = FALSE
  /\ op = [o \in Ops |-> IdleOp]

NextClassify ==
  \/ \E mode \in {"auto", "interactive"} : Start(1, mode, "f1")
  \/ ReadDone(1, TRUE)
  \/ PrepDone(1, TRUE)
  \/ TimerFire(1)
  \/ SdkRetry(1)
  \/ ResponseOk(1, << >>)
  \/ \E e \in RawErrors \cup WordedErrors : ResponseError(1, e)
  \/ BackoffDone(1)

SpecClassify == InitClassify /\ [][NextClassify]_vars

(***************************************************************************)
(* One operation, auto or interactive, with a user who may type names      *)
(* holding any character into the dialog's text input                      *)
(***************************************************************************)
\* texts typed into the text input of CaptionSelectionModal
TypedTexts ==
  { << "b" >>, << "a", "?" >>, << "a", "/", "b" >>, << " ", "c", "*" >> }

InitDialog ==
  /\ \E dp \in BOOLEAN :
       settings = [DEFAULT_SETTINGS EXCEPT !.apiKey = "sk", !.maxRetries = 1,
                                           !.datePrefix = dp]
  /\ isMobile = FALSE
  /\ vault = [f \in Files |-> InitialPath(f)]
  /\ abortController = 0
  /\ unloaded = FALSE
  /\ op = [o \in Ops |-> IdleOp]

NextDialog ==
  \/ \E mode \in {"auto", "interactive"} : Start(1, mode, "f1")
  \/ ReadDone(1, TRUE)
  \/ PrepDone(1, TRUE)
  \/ TimerFire(1)
  \/ \E raw \in { << << "a", "?" >>, << "q" >> >>, << << "a", "/", "b" >> >> } :
       ResponseOk(1, raw)
  \/ ResponseError(1, "abort")
  \/ FilterStep(1)
  \/ \E i \in 1 .. 2 : SelectRadio(1, i)
  \/ \E text \in TypedTexts : TypeText(1, text)
  \/ Cancel(1)
  \/ Confirm(1)
  \/ DateDone(1)
  \/ \E ok \in BOOLEAN : RenameDone(1, ok)

SpecDialog == InitDialog /\ [][NextDialog]_vars

\* what the plugin's own scheduling brings about for operation o without
\* any answer of the backend: local reads and decoding settle, timers fire,
\* an aborted request rejects, the rename call settles
Settles(o) ==
  \/ \E ok \in BOOLEAN : ReadDone(o, ok)
  \/ \E ok \in BOOLEAN : PrepDone(o, ok)
  \/ TimerFire(o)
  \/ ResponseError(o, "abort")
  \/ BackoffDone(o)
  \/ FilterStep(o)
  \/ DateDone(o)
  \/ \E ok \in BOOLEAN : RenameDone(o, ok)

\* Spec with that scheduling weakly fair
FairSpec == Spec /\ WF_vars(Settles(1))

(***************************************************************************)
(* Properties                                                              *)
(***************************************************************************)
\* filterDuplicateNames' rule applied to what was found at a candidate's path
Available(found, file) == found = NoFile \/ found = file

\* the candidates of r.captions whose path was found available, in order
RECURSIVE AvailableFrom(_, _)
AvailableFrom(r, i) ==
  IF i > Len(r.lookups) THEN << >>
  ELSE (IF Available(r.lookups[i], r.file) THEN << r.captions[i] >> ELSE << >>)
       \o AvailableFrom(r, i + 1)

\* performRename was entered with a name
Renaming(r) ==
  \/ r.pc \in {"date", "renaming"}
  \/ r.pc = "done" /\ r.notice \in {"conflict", "renamed", "renameFailed"}

\* C1: performRename calls renameFile only when its lookup of the target
\* path found no other file there; when the target is occupied at that
\* lookup the operation ends with the conflict notice and without a call.
C1_NoRenameOntoOccupied ==
  \A o \in Ops :
    /\ op[o].renameCalls > 0 => op[o].atCheck = "free"
    /\ op[o].atCheck = "occupied" =>
         /\ op[o].pc = "done" /\ op[o].notice = "conflict"
         /\ op[o].renameCalls = 0
         /\ vault[op[o].file] = InitialPath(op[o].file)

\* an auto-mode operation whose chosen name had passed the collision filter
\* and whose target was occupied when performRename looked it up
C1_Witness ==
  \E o \in Ops :
    /\ op[o].mode = "auto" /\ op[o].notice = "conflict"
    /\ op[o].newName \in Range(op[o].filtered)

\* C2: an operation whose caption round ended with an error, in the first or
\* in the second round, is in the failed state with the error reported: it
\* has called renameFile never, and its file is where it was.
C2_ErrorEndsFailed ==
  \A o \in Ops :
    (op[o].lastThrown # "none" /\ op[o].pc # "backoff") =>
      /\ op[o].pc = "failed" /\ op[o].notice = "error"
      /\ op[o].error = op[o].lastThrown
      /\ op[o].renameCalls = 0 /\ op[o].atCheck = "none"
      /\ vault[op[o].file] = InitialPath(op[o].file)

\* an operation that failed in its second caption round
C2_Witness ==
  \E o \in Ops : op[o].pc = "failed" /\ op[o].round = 2

\* C3: in auto mode the name given to performRename is the first candidate,
\* in the backend's order, whose path the filter found available.
C3_AutoTakesFirstAvailable ==
  \A o \in Ops :
    (op[o].mode = "auto" /\ Renaming(op[o])) =>
      \E k \in DOMAIN op[o].captions :
        /\ op[o].newName = op[o].captions[k]
        /\ Available(op[o].lookups[k], op[o].file)
        /\ \A j \in 1 .. (k - 1) : ~Available(op[o].lookups[j], op[o].file)

\* an auto-mode rename to the second candidate, the first one being taken
C3_Witness ==
  \E o \in Ops :
    /\ op[o].mode = "auto" /\ op[o].notice = "renamed"
    /\ Len(op[o].captions) = 2 /\ op[o].newName = op[o].captions[2]
    /\ ~Available(op[o].lookups[1], op[o].file)

\* C4: in auto mode the second caption round is run exactly when the first
\* round's filter kept no candidate, there is no third round, and when the
\* second round's filter keeps none the operation ends with the "could not
\* generate unique names" notice and no rename.
C4_OneRetryRound ==
  \A o \in Ops :
    op[o].mode = "auto" =>
      /\ op[o].round <= 2
      /\ op[o].emptyRounds = 0 => op[o].round <= 1
      /\ op[o].emptyRounds = 1 => op[o].round = 2
      /\ op[o].emptyRounds = 2 =>
           /\ op[o].round = 2 /\ op[o].pc = "done"
           /\ op[o].notice = "exhausted" /\ op[o].renameCalls = 0
      /\ op[o].notice = "exhausted" => op[o].emptyRounds = 2

\* an auto-mode operation that gave up after two rounds without a free name
C4_Witness ==
  \E o \in Ops : op[o].mode = "auto" /\ op[o].notice = "exhausted"

\* C5 (as amended): an operation calls renameFile at most once: once when
\* performRename's lookup found the target free, never when it found it
\* occupied; a failed call is reported and the operation is over.
C5_RenameAtMostOnce ==
  \A o \in Ops :
    /\ op[o].renameCalls <= 1
    /\ (op[o].pc = "done" /\ Renaming(op[o])) =>
         (op[o].renameCalls = 1 <=> op[o].atCheck = "free")
    /\ op[o].notice \in {"renamed", "renameFailed"} =>
         op[o].pc = "done" /\ op[o].renameCalls = 1

\* a rename call that failed and was reported
C5_Witness ==
  \E o \in Ops : op[o].notice = "renameFailed" /\ op[o].renameCalls = 1

\* C5 (as stated): at most one call, and exactly one whenever a name was
\* resolved and given to performRename.
C5_ExactlyOncePerResolvedName ==
  \A o \in Ops :
    /\ op[o].renameCalls <= 1
    /\ (op[o].pc = "done" /\ Renaming(op[o])) => op[o].renameCalls = 1

\* what holds of an interactive operation at every moment
C6_Safety ==
  \A o \in Ops :
    op[o].mode = "interactive" =>
      /\ op[o].round <= 2
      /\ op[o].opened =>
           /\ Len(op[o].lookups) = Len(op[o].captions)
           /\ op[o].modal = AvailableFrom(op[o], 1)
           /\ op[o].modal = << >> => op[o].round = 2
      /\ op[o].pc = "done" => op[o].opened
      /\ ~op[o].opened => op[o].pc \notin {"date", "renaming", "dialog"}
      /\ Renaming(op[o]) =>
           /\ op[o].submitted
           /\ op[o].newName # << >> /\ Trim(op[o].newName) = op[o].newName
      /\ op[o].renameCalls > 0 => op[o].atCheck = "free"

\* C6: an interactive operation that does not fail with an error reaches the
\* selection dialog, after at most two caption rounds, with the candidates
\* the last round's filter found available (none when both rounds kept
\* none); it enters performRename only after the user confirmed a text that
\* is non-empty when trimmed, and calls renameFile only when the lookup of
\* the confirmed name's target found it free.
C6_InteractiveReachesDialog ==
  /\ []C6_Safety
  /\ \A o \in Ops :
       (op[o].mode = "interactive") ~> (op[o].opened \/ op[o].pc = "failed")

\* the dialog opened without a suggestion after two rounds
C6_Witness ==
  \E o \in Ops :
    /\ op[o].mode = "interactive" /\ op[o].pc = "dialog"
    /\ op[o].modal = << >> /\ op[o].round = 2 /\ op[o].captions # << >>

\* C7: a caption round that fails has made exactly maxRetries attempts and
\* surfaces the error of the last one; after an attempt of a round succeeded
\* the round makes no further attempt; the retry counter of a round counts
\* that round's attempts only, starting at 0.
C7_RetryBudget ==
  \A o \in Ops :
    /\ op[o].attempts <= settings.maxRetries
    /\ op[o].pc = "failed" =>
         /\ op[o].attempts = settings.maxRetries
         /\ op[o].error = op[o].lastThrown
    /\ op[o].okAttempts > 0 => op[o].attempts = op[o].okAttempts
    /\ op[o].pc \in {"read", "prep", "inflight", "backoff"} =>
         op[o].attempts = op[o].retryCount + 1

\* an operation failed after maxRetries >= 2 attempts while the other one is
\* in its first attempt
C7_Witness ==
  \E o \in Ops, q \in Ops :
    /\ o # q /\ settings.maxRetries >= 2
    /\ op[o].pc = "failed" /\ op[o].attempts = settings.maxRetries
    /\ op[q].pc = "inflight" /\ op[q].retryCount = 0

\* C8: the network requests of one caption round, those of the SDK's own
\* retries included, never exceed settings.maxRetries.
C8_RequestsWithinBudget ==
  \A o \in Ops : op[o].netReqs <= settings.maxRetries

\* the errors the catch block of generateCaptions names as configuration
\* problems
FatalErrors == {"Invalid API key", "Rate limit exceeded", "Model not found"}

\* C9: after an attempt failed with an authentication, rate-limit or
\* model-not-found error the round is over: the error is with the caller,
\* no backoff delay runs and no further attempt is made.
C9_FatalNotRetried ==
  \A o \in Ops : op[o].lastThrown \in FatalErrors => op[o].pc = "failed"

\* C10: a request whose timeout has elapsed is aborted.
C10_TimeoutAborts ==
  \A o \in Ops :
    (op[o].pc = "inflight" /\ op[o].timedOut) => op[o].aborted

\* C11: a caption request that was in flight when onunload ran has been
\* aborted.
C11_UnloadAbortsInFlight ==
  \A o \in Ops :
    (op[o].pc = "inflight" /\ op[o].atUnload) => op[o].aborted

\* const shouldUseLocal = this.settings.useLocalModel && !this.app.isMobile
shouldUseLocal == settings.useLocalModel /\ ~isMobile

\* C12: in cloud mode, forced or chosen, with an empty API key an operation
\* only ever fails its attempts with the configuration error: it never
\* reads or decodes the image and sends no request; in local mode no
\* attempt fails with the configuration error.
C12_NoKeyNoRequest ==
  \A o \in Ops :
    /\ (~shouldUseLocal /\ settings.apiKey = "" /\ op[o].pc # "idle") =>
         /\ op[o].pc \in {"backoff", "failed"}
         /\ op[o].lastThrown = "config"
         /\ op[o].round = 1 /\ op[o].netReqs = 0
         /\ op[o].pc = "failed" => op[o].error = "config"
    /\ shouldUseLocal => op[o].lastThrown # "config"

\* local mode stored, mobile environment, no API key: the operation failed
\* with the configuration error after all its attempts
C12_Witness ==
  \E o \in Ops :
    /\ settings.useLocalModel /\ isMobile /\ settings.apiKey = ""
    /\ op[o].pc = "failed" /\ op[o].error = "config"
    /\ op[o].attempts = settings.maxRetries

\* a is the beginning of b
IsPrefix(a, b) == Len(a) <= Len(b) /\ SubSeq(b, 1, Len(a)) = a

\* C13: with useLocalModel stored and a mobile environment, a request is a
\* cloud request: made with the OpenAI provider, the stored cloud model, the
\* stored (non-empty) cloud API key and the stored cloud endpoint, reduced to
\* its base; the stored local server, endpoint and model are not in it.
C13_MobileForcesCloud ==
  \A o \in Ops :
    (settings.useLocalModel /\ isMobile /\ op[o].request # NoRequest) =>
      /\ op[o].request.provider = "openai"
      /\ op[o].request.model = settings.model
      /\ op[o].request.apiKey = settings.apiKey /\ settings.apiKey # ""
      /\ op[o].request.endpoint = settings.apiEndpoint
      /\ op[o].request.baseURL = CloudBaseURL(settings.apiEndpoint)
      /\ \/ IsPrefix(op[o].request.baseURL, settings.apiEndpoint)
            /\ op[o].request.baseURL # Undefined
         \/ op[o].request.baseURL = Undefined
            /\ IncludesOpenAIHost(settings.apiEndpoint)

\* a request in flight on mobile with a local preset and a custom local
\* endpoint and model stored, and a cloud endpoint other than the default
C13_Witness ==
  \E o \in Ops :
    /\ settings.useLocalModel /\ isMobile /\ op[o].pc = "inflight"
    /\ settings.localModelServer = "lm-studio"
    /\ settings.localApiEndpoint # OllamaChat /\ settings.localModel = "llava"
    /\ settings.apiEndpoint # OpenAIChatCompletions
    /\ op[o].request.provider = "openai"

C15_SanitizeIdempotent ==
  \A o \in Ops : \A i \in DOMAIN op[o].captions :
    sanitizeFilename(op[o].captions[i], settings) = op[o].captions[i]

\* C16: with allowSpaces off a sanitized caption has no whitespace, no two
\* hyphens in a row, and no hyphen at either end.
C16_NoSpaceNoStrayHyphen ==
  \A o \in Ops : \A i \in DOMAIN op[o].captions :
    LET s == op[o].captions[i]
    IN ~settings.allowSpaces =>
         /\ \A k \in DOMAIN s : ~IsSpace(s[k])
         /\ \A k \in 1 .. (Len(s) - 1) : ~(s[k] = "-" /\ s[k + 1] = "-")
         /\ s # << >> => (s[1] # "-" /\ s[Len(s)] # "-")

\* a caption of spaces, underscores and hyphens around a letter, sanitized
\* with allowSpaces off
C16_Witness ==
  \E o \in Ops :
    /\ ~settings.allowSpaces
    /\ op[o].raw = << << "-", "_", "a", " " >> >>
    /\ op[o].captions = << << ToUpperChar("a") >> >>
    /\ settings.caseStyle = "title"

IsUpper(c) == c \in Range(UpperLetters)

IsLower(c) == c \in Range(LowerLetters)

IsLetter(c) == IsUpper(c) \/ IsLower(c)

\* position k of s is in the whitespace-delimited token that begins at b
TokenOf(s, b, k) ==
  /\ b <= k
  /\ b = 1 \/ IsSpace(s[b - 1])
  /\ \A j \in b .. k : ~IsSpace(s[j])

\* s[k] is the first letter of its token
FirstLetterOfToken(s, k) ==
  /\ IsLetter(s[k])
  /\ \E b \in 1 .. k :
       TokenOf(s, b, k) /\ \A j \in b .. (k - 1) : ~IsLetter(s[j])

\* s has the letter case the style asks for
ConformsTo(s, style) ==
  CASE style = "lower" -> \A k \in DOMAIN s : ~IsUpper(s[k])
    [] style = "upper" -> \A k \in DOMAIN s : ~IsLower(s[k])
    [] style = "title" ->
         \A k \in DOMAIN s :
           IsLetter(s[k]) =>
             IF FirstLetterOfToken(s, k) THEN IsUpper(s[k]) ELSE IsLower(s[k])
    [] style = "sentence" ->
         \A k \in DOMAIN s : IF k = 1 THEN ~IsLower(s[k]) ELSE ~IsUpper(s[k])
    [] OTHER -> TRUE

\* C17: every sanitized caption has the letter case of the chosen style:
\* no uppercase letter for lower, no lowercase letter for upper, each
\* token's first letter uppercase and its other letters lowercase for title,
\* an output that begins uppercase and is lowercase after that for sentence.
C17_CaseStyleHolds ==
  \A o \in Ops : \A i \in DOMAIN op[o].captions :
    ConformsTo(op[o].captions[i], settings.caseStyle)

\* Scenario B's results
Sunset_Beach ==
  << "S", "u", "n", "s", "e", "t", "-", "B", "e", "a", "c", "h" >>

Ocean_View == << "O", "c", "e", "a", "n", "-", "V", "i", "e", "w" >>

\* C18: with title case and allowSpaces off the captions "Sunset Beach",
\* "Ocean View" and "sunset beach" become "Sunset-Beach", "Ocean-View" and
\* "Sunset-Beach".
C18_ScenarioB ==
  \A o \in Ops :
    (settings.caseStyle = "title" /\ ~settings.allowSpaces
       /\ op[o].captions # << >>) =>
      /\ op[o].raw = << SunsetBeach >> => op[o].captions = << Sunset_Beach >>
      /\ op[o].raw = << OceanView >> => op[o].captions = << Ocean_View >>
      /\ op[o].raw = << sunsetbeach >> => op[o].captions = << Sunset_Beach >>

\* C19: a caption that is empty once sanitized is no candidate: the filter
\* does not return it, the dialog does not offer it, and performRename is
\* not entered with it.
C19_EmptyCaptionUnused ==
  \A o \in Ops :
    /\ << >> \notin Range(op[o].filtered)
    /\ << >> \notin Range(op[o].modal)
    /\ Renaming(op[o]) => op[o].newName # << >>

\* C20: no candidate that filterDuplicateNames has kept has a target path
\* (folder, date prefix when enabled and known, name, extension) at which
\* another file than the one being renamed exists.
C20_FilterSound ==
  \A o \in Ops : \A i \in DOMAIN op[o].filtered :
    \A f \in Files :
      vault[f] = TargetPath(op[o].file, op[o].filtered[i], settings.datePrefix)
        => f = op[o].file

\* of the candidates "p", "a" the filter kept "p", the image's own name, and
\* dropped "a", another file's name
C20_Witness ==
  \E o \in Ops :
    /\ op[o].captions = << << "p" >>, << "a" >> >>
    /\ op[o].idx = 3 /\ op[o].filtered = << << "p" >> >>
    /\ \E f \in Files \ {op[o].file} :
         vault[f] = TargetPath(op[o].file, << "a" >>, settings.datePrefix)

\* the folder of the model's paths, with its slash: "d/" or nothing
FolderPrefix(path) ==
  IF Len(path) >= 2 /\ SubSeq(path, 1, 2) = << "d", "/" >>
  THEN << "d", "/" >> ELSE << >>

\* the date prefix of the model's images: f1 was created on 2024-03-05, f2
\* has no creation time
DatePrefixOf(f) ==
  IF settings.datePrefix /\ f = "f1"
  THEN << "2", "0", "2", "4", "-", "0", "3", "-", "0", "5", "-" >>
  ELSE << >>

\* folder, "/", date prefix, name, ".", extension
ExpectedTarget(f, name) ==
  FolderPrefix(vault[f]) \o DatePrefixOf(f) \o name \o << ".", "p", "n", "g" >>

\* C21: the path performRename renames to is the folder, "/", the final
\* name, "." and the extension, the final name being the name after
\* "YYYY-MM-DD-" of the creation date when datePrefix is on and the file has
\* a creation time, and the name alone otherwise; for a candidate it is the
\* path filterDuplicateNames checked for that candidate; Scenario C's
\* candidate "Mountain Trail" of an image created on 2024-03-05 goes to
\* "2024-03-05-Mountain Trail.png".
C21_TargetPath ==
  \A o \in Ops :
    /\ \A k \in DOMAIN op[o].checked :
         op[o].checked[k] = ExpectedTarget(op[o].file, op[o].captions[k])
    /\ op[o].renameCalls > 0 =>
         /\ op[o].target = ExpectedTarget(op[o].file, op[o].newName)
         /\ \A k \in DOMAIN op[o].checked :
              op[o].captions[k] = op[o].newName =>
                op[o].checked[k] = op[o].target
         /\ (settings.datePrefix /\ op[o].file = "f1"
               /\ op[o].newName = MountainTrail) =>
              op[o].target = FolderPrefix(vault["f1"]) \o
                << "2", "0", "2", "4", "-", "0", "3", "-", "0", "5", "-",
                   "M", "o", "u", "n", "t", "a", "i", "n", " ",
                   "T", "r", "a", "i", "l", ".", "p", "n", "g" >>

\* Scenario C: the image created on 2024-03-05 was renamed, by the plugin's
\* choice, to the candidate "Mountain Trail" with the date prefix on
C21_Witness ==
  \E o \in Ops :
    /\ settings.datePrefix /\ op[o].file = "f1" /\ op[o].mode = "auto"
    /\ op[o].raw = << MountainTrail >> /\ op[o].notice = "renamed"
    /\ vault["f1"] = op[o].target /\ op[o].checked = << op[o].target >>

\* C22: settings.maxRetries is an integer of at least 1 and
\* settings.timeoutMs is an integer above 0, whatever was loaded, typed into
\* the settings tab or reset.
C22_SettingsInRange ==
  /\ settings.maxRetries \in Int /\ settings.maxRetries >= 1
  /\ settings.timeoutMs \in Int /\ settings.timeoutMs > 0

\* 1000, 2000, 4000, 8000 and from then on 10000
DelayBeforeRetry(n) ==
  IF n = 0 THEN 1000 ELSE IF n = 1 THEN 2000 ELSE IF n = 2 THEN 4000
  ELSE IF n = 3 THEN 8000 ELSE 10000

\* C23: the delay before retry number n of a caption round (n from 0) is
\* min(1000 * 2^n, 10000) ms: 1000, 2000, 4000, 8000, then 10000; the
\* delays of a round never decrease and are never above 10000 ms; an
\* operation waiting for retry number n has run n + 1 delays.
C23_BackoffDelays ==
  \A o \in Ops :
    LET d == op[o].delays
    IN /\ \A k \in DOMAIN d :
            /\ d[k] = DelayBeforeRetry(k - 1)
            /\ 1000 * 2 ^ (k - 1) <= 10000 => d[k] = 1000 * 2 ^ (k - 1)
            /\ 1000 * 2 ^ (k - 1) >= 10000 => d[k] = 10000
            /\ d[k] <= 10000
            /\ k > 1 => d[k - 1] <= d[k]
       /\ op[o].pc = "backoff" => Len(d) = op[o].retryCount + 1
       /\ op[o].pc \in {"read", "prep", "inflight"} =>
            Len(d) = op[o].retryCount

\* a round in its fifth backoff delay, the first one that the cap shortens
C23_Witness ==
  \E o \in Ops :
    /\ op[o].pc = "backoff" /\ op[o].retryCount = 4
    /\ op[o].delays = << 1000, 2000, 4000, 8000, 10000 >>

\* C24: an attempt that failed because the image could not be decoded, or
\* because the credential is missing, ends its caption round: it was the
\* round's only attempt, no backoff delay runs and the error is reported.
C24_DecodeAndConfigFatal ==
  \A o \in Ops :
    op[o].lastThrown \in {"decode", "config"} =>
      /\ op[o].pc = "failed" /\ op[o].error = op[o].lastThrown
      /\ op[o].attempts = 1 /\ op[o].delays = << >>

\* no other file than f is at the path candidate c of f has
Free(f, c) ==
  \A g \in Files \ {f} : vault[g] # TargetPath(f, c, settings.datePrefix)

\* C25: what filterDuplicateNames has returned is the list of its available
\* candidates (no file at the candidate's path, or the renamed file itself),
\* in the order and as often as they are in its input, and at every step of
\* the loop the result so far is that of the candidates looked at so far;
\* the input list is still the sanitized answer of the backend.
C25_FilterExact ==
  \A o \in Ops :
    op[o].captions # << >> =>
      /\ op[o].idx \in 1 .. (Len(op[o].captions) + 1)
      /\ op[o].filtered =
           SelectSeq(SubSeq(op[o].captions, 1, op[o].idx - 1),
                     LAMBDA c : Free(op[o].file, c))
      /\ op[o].captions =
           [i \in DOMAIN op[o].raw |-> sanitizeFilename(op[o].raw[i], settings)]

\* of the candidates "p", "a", "p" the filter returned "p", "p": "a" is
\* another file's name and "p" the image's own
C25_Witness ==
  \E o \in Ops :
    /\ op[o].captions = << << "p" >>, << "a" >>, << "p" >> >>
    /\ op[o].idx = 4 /\ op[o].filtered = << << "p" >>, << "p" >> >>
    /\ ~Free(op[o].file, << "a" >>)

\* C26: the base URL a request was made with is a fixed point of the rule
\* that produced it: the cloud rule (a trailing /chat/completions, then a
\* trailing /v1 removed) gives it back for a cloud request, the local rule
\* (a trailing /chat removed, /v1/ and what follows removed, /api appended
\* unless it ends the path) gives it back for a local request.
C26_NormalizeIdempotent ==
  \A o \in Ops :
    LET req == op[o].request
    IN /\ req.provider = "openai" => CloudBaseURL(req.baseURL) = req.baseURL
       /\ req.provider = "ollama" => LocalBaseURL(req.baseURL) = req.baseURL

\* one step of operation o, from its locals r to its locals r2, keeps the
\* order of the steps
StepInOrder(r, r2) ==
  \* preprocessing begins when the read has completed
  /\ (r2.pc = "prep" /\ r.pc # "prep") => r.pc = "read"
  \* a request is sent when preprocessing has completed, or by the SDK
  \* while its call is pending
  /\ (r2.pc = "inflight" /\ r.pc # "inflight") => r.pc = "prep"
  /\ r2.netReqs > r.netReqs =>
       r.pc \in {"prep", "inflight"} /\ r2.pc = "inflight"
  \* captions are sanitized when the pending call has answered, and they are
  \* the answer's captions
  /\ (r2.captions # r.captions \/ r2.raw # r.raw) =>
       /\ r.pc = "inflight"
       /\ r2.captions =
            [i \in DOMAIN r2.raw |-> sanitizeFilename(r2.raw[i], settings)]
  \* paths are looked up for sanitized captions
  /\ (r2.lookups # r.lookups /\ r2.lookups # << >>) =>
       /\ r.pc \in {"inflight", "filter"} /\ r2.captions # << >>
       /\ Len(r2.lookups) <= Len(r2.captions)
  \* performRename is entered, and renameFile called, when the filter has
  \* looked at every caption
  /\ ((r2.pc \in {"date", "dialog"} /\ r2.pc # r.pc)
        \/ r2.renameCalls > r.renameCalls) =>
       /\ r.pc \in {"inflight", "filter", "date", "dialog"}
       /\ r2.captions # << >> /\ Len(r2.lookups) = Len(r2.captions)
  \* the rename settles after renameFile was called
  /\ (r2.notice \in {"renamed", "renameFailed"} /\ r2.notice # r.notice) =>
       r.pc = "renaming" /\ r.renameCalls = 1

\* C27: in every step of an operation, in each attempt and in both caption
\* rounds, preprocessing follows the completed read, the request follows
\* completed preprocessing, sanitization follows the answer, the collision
\* filter works on the sanitized captions, and the rename follows the
\* completed filter.
C27_StepsInOrder ==
  [][\A o \in Ops : StepInOrder(op[o], op'[o])]_vars

\* a rename made in the second attempt of the second caption round
C27_Witness ==
  \E o \in Ops :
    /\ op[o].round = 2 /\ op[o].retryCount = 1 /\ op[o].notice = "renamed"
    /\ vault[op[o].file] = op[o].target

\* C28: the request of an operation is aborted only in a step in which its
\* own timeout fires or the plugin is unloaded, and the handle of an
\* operation's request is cleared from the plugin only in the step in which
\* that request completes: never by the timer or the completion of another
\* operation.
C28_NoCrossCancel ==
  [][\A q \in Ops :
       /\ (op'[q].aborted /\ ~op[q].aborted) =>
            \/ op'[q].timedOut /\ ~op[q].timedOut
            \/ unloaded' /\ ~unloaded
       /\ (abortController = q /\ abortController' = 0) =>
            op[q].pc = "inflight" /\ op'[q].pc # "inflight"]_vars

\* C29: in the step in which the timeout of an operation's request fires,
\* the handle the plugin holds is that request's own and the request is
\* aborted, whatever other operations have started or finished meanwhile.
C29_TimerActsOnOwnHandle ==
  [][\A o \in Ops :
       (op'[o].timedOut /\ ~op[o].timedOut) =>
         abortController = o /\ op'[o].aborted]_vars

\* C30: a timeout timer is pending only for a request in flight: when an
\* attempt has ended, with captions or with an error, its timer is cleared,
\* and a timer fires only for a request that is, and stays, in flight.
C30_NoTimerAfterAttempt ==
  /\ [](\A o \in Ops : op[o].timerArmed => op[o].pc = "inflight")
  /\ [][\A o \in Ops :
         (op'[o].timedOut /\ ~op[o].timedOut) =>
           /\ op[o].pc = "inflight" /\ op[o].timerArmed
           /\ op'[o].pc = "inflight" /\ ~op'[o].timerArmed]_vars

\* an operation whose attempt ended with the timeout error and whose timer
\* is gone, while the other operation's request is in flight with its timer
\* pending
C30_Witness ==
  \E o \in Ops, q \in Ops :
    /\ op[o].lastThrown = "Request timeout" /\ op[o].pc \in {"backoff", "failed"}
    /\ ~op[o].timerArmed
    /\ op[q].pc = "inflight" /\ op[q].timerArmed

\* C31: once onunload has run, no operation sends a caption request, begins
\* an attempt or begins a backoff delay: the attempt that the unload aborted
\* is the last one, and a backoff delay that was running ends the round.
C31_NothingNewAfterUnload ==
  [][unloaded =>
       \A o \in Ops :
         /\ op'[o].netReqs <= op[o].netReqs
         /\ op'[o].attempts <= op[o].attempts
         /\ Len(op'[o].delays) <= Len(op[o].delays)]_vars

\* C32: two operations on two different files never both call renameFile
\* with the same target path: the one whose lookup comes second finds the
\* path taken and ends with the conflict notice; and a rename that took
\* place put the file on a path no other file has.
C32_NoTwoRenamesToOnePath ==
  /\ \A o \in Ops, q \in Ops :
       (o # q /\ op[o].file # op[q].file
          /\ op[o].renameCalls > 0 /\ op[q].renameCalls > 0) =>
         op[o].target # op[q].target
  /\ \A f \in Files, g \in Files :
       (f # g /\ vault[f] # NoPath) => vault[f] # vault[g]

\* the path of name for the file of operation r, with the date prefix when
\* it was on at the start of r
TargetAtStart(r, name) ==
  FolderPrefix(vault[r.file])
    \o (IF r.started.datePrefix /\ r.file = "f1"
        THEN << "2", "0", "2", "4", "-", "0", "3", "-", "0", "5", "-" >>
        ELSE << >>)
    \o name \o << ".", "p", "n", "g" >>

\* C33: what an operation does is done with the settings that were in
\* effect when it was started: the SDK's retry option and the number of
\* attempts follow the retry budget of then, the captions are sanitized by
\* the naming policy of then, and the paths the filter checks and the path
\* of the rename are built with the date-prefix flag of then, so that the
\* rename of a candidate goes to the path the filter checked for it.
C33_SettingsOfStart ==
  \A o \in Ops :
    op[o].pc # "idle" =>
      LET r == op[o]
      IN /\ r.pc = "inflight" => r.sdkMaxRetries = r.started.maxRetries
         /\ r.attempts <= r.started.maxRetries
         /\ r.captions =
              [i \in DOMAIN r.raw |-> sanitizeFilename(r.raw[i], r.started)]
         /\ \A k \in DOMAIN r.checked :
              r.checked[k] = TargetAtStart(r, r.captions[k])
         /\ r.renameCalls > 0 =>
              /\ r.target = TargetAtStart(r, r.newName)
              /\ \A k \in DOMAIN r.checked :
                   r.captions[k] = r.newName => r.checked[k] = r.target

\* an auto-mode operation has ended: with a rename, a notice, or an error
Terminated(r) == r.pc \in {"done", "failed"}

\* C34: an auto-mode operation whose requests are answered or timed out and
\* whose backoff delays elapse ends, done or failed; it has at no moment
\* made more than 2 * maxRetries caption attempts or begun a third caption
\* round, and once ended it stays so.
C34_AutoTerminates ==
  /\ [](\A o \in Ops :
         op[o].mode = "auto" =>
           /\ op[o].totalAttempts <= 2 * settings.maxRetries
           /\ op[o].round <= 2)
  /\ [][\A o \in Ops : Terminated(op[o]) => op'[o] = op[o]]_vars
  /\ \A o \in Ops :
       (op[o].mode = "auto" /\ op[o].pc # "idle") ~> Terminated(op[o])

\* an auto-mode operation that ended after 2 * maxRetries attempts, with
\* maxRetries above 1
C34_Witness ==
  \E o \in Ops :
    /\ op[o].mode = "auto" /\ Terminated(op[o]) /\ settings.maxRetries > 1
    /\ op[o].round = 2 /\ op[o].totalAttempts = 2 * settings.maxRetries

\* C35: the canvas of an image of w by h has no edge above 512; with both
\* edges within 512 it has the image's dimensions; otherwise its longest
\* edge is 512 and its other edge is the integer part of the image's other
\* edge times 512 over the image's longest edge.
C35_ResizeWithinBound ==
  \A o \in Ops :
    LET p == op[o].prep
        w == p.imgWidth
        h == p.imgHeight
    IN w >= 1 =>
         /\ p.width <= 512 /\ p.height <= 512
         /\ (w <= 512 /\ h <= 512) => (p.width = w /\ p.height = h)
         /\ (w > 512 /\ w >= h) =>
              /\ p.width = 512
              /\ p.height * w <= h * 512 /\ h * 512 < (p.height + 1) * w
         /\ (h > 512 /\ h >= w) =>
              /\ p.height = 512
              /\ p.width * h <= w * 512 /\ w * 512 < (p.width + 1) * h

\* an image of 700 by 2048 drawn on a canvas of 175 by 512
C35_Witness ==
  \E o \in Ops :
    /\ op[o].prep.imgWidth = 700 /\ op[o].prep.imgHeight = 2048
    /\ op[o].prep.width = 175 /\ op[o].prep.height = 512

\* C36: the canvas of an image of at least 1 by 1 is at least 1 by 1.
C36_CanvasNotEmpty ==
  \A o \in Ops :
    op[o].prep.imgWidth >= 1 =>
      op[o].prep.width >= 1 /\ op[o].prep.height >= 1

\* C37: when the promise of resizeAndConvertToBase64 is settled, resolved
\* or rejected on any path, the object URL has been revoked; the result or
\* error reaches generateCaptions with the URL revoked.
C37_ObjectURLReleased ==
  /\ [](\A o \in Ops :
         op[o].prep.stage \in {"resolved", "rejected"} => ~op[o].prep.urlLive)
  /\ [][\A o \in Ops :
         (op[o].pc = "prep" /\ op'[o].pc # "prep") =>
           /\ op[o].prep.stage \in {"resolved", "rejected"}
           /\ ~op[o].prep.urlLive /\ ~op'[o].prep.urlLive]_vars

\* the decode error of an image that was loaded but could not be encoded
\* has reached the retry wrapper, the object URL revoked
C37_Witness ==
  \E o \in Ops :
    /\ op[o].pc = "backoff" /\ op[o].lastThrown = "decode"
    /\ op[o].prep.stage = "rejected" /\ op[o].prep.imgWidth >= 1
    /\ ~op[o].prep.urlLive

\* C38: what the catch block of generateCaptions throws is the first match
\* of: an abort gives the timeout error; a message holding 401 or
\* Unauthorized the invalid-key error; one holding 429 the rate-limit
\* error; one holding "model" the model-not-found error; otherwise the
\* message as it was.  A schema or network failure is never thrown as the
\* invalid-key, rate-limit or model-not-found error.
C38_ClassifiedByPriority ==
  \A o \in Ops :
    LET e == op[o].lastCaught
        thrown == op[o].lastThrown
    IN e # "none" =>
         /\ ErrorName(e) = "AbortError" => thrown = "Request timeout"
         /\ ErrorName(e) # "AbortError" =>
              /\ (MessageIncludes(e, "401") \/ MessageIncludes(e, "Unauthorized"))
                   => thrown = "Invalid API key"
              /\ ( /\ ~MessageIncludes(e, "401")
                   /\ ~MessageIncludes(e, "Unauthorized")
                   /\ MessageIncludes(e, "429") )
                   => thrown = "Rate limit exceeded"
              /\ ( /\ \A sub \in {"401", "Unauthorized", "429"} :
                        ~MessageIncludes(e, sub)
                   /\ MessageIncludes(e, "model") )
                   => thrown = "Model not found"
              /\ (\A sub \in {"401", "Unauthorized", "429", "model"} :
                     ~MessageIncludes(e, sub))
                   => thrown = e
         /\ ErrorKind(e) \in {"schema", "network"} =>
              thrown \notin {"Invalid API key", "Rate limit exceeded",
                              "Model not found"}

\* C39: every name that performRename passes on to renameFile, chosen by
\* the plugin or picked or typed in the dialog, holds none of the
\* characters < > : " / \ | ? *.
C39_RenamedNameIsLegal ==
  \A o \in Ops :
    op[o].renameCalls > 0 =>
      \A i \in DOMAIN op[o].newName : op[o].newName[i] \notin IllegalChars

\* C40: the path an operation hands to renameFile is in the directory of
\* its file and ends with the file's extension, and a step changes the
\* path of a file only by giving the file an operation was started on the
\* path that operation asked for: no file appears, disappears or is
\* renamed otherwise.
C40_OnlyBaseNameChanges ==
  /\ [](\A o \in Ops :
         op[o].pc = "renaming" =>
           /\ ParentPath(op[o].target) = ParentPath(vault[op[o].file])
           /\ LET ext == << "." >> \o Extension(vault[op[o].file])
                  n == Len(op[o].target)
              IN /\ n > Len(ext)
                 /\ SubSeq(op[o].target, n - Len(ext) + 1, n) = ext)
  /\ [][\A f \in Files :
         vault'[f] # vault[f] =>
           /\ vault[f] # NoPath /\ vault'[f] # NoPath
           /\ \E o \in Ops :
                /\ op[o].file = f /\ op[o].pc = "renaming"
                /\ vault'[f] = op[o].target]_vars

====
